---------------------------- MODULE Spec2Model ----------------------------
(***************************************************************************)
(* Fuel-Price: cycle analysis (cycle_prediction.py, market_physics.py),    *)
(* Strategy A phase prediction and the walk-forward backtester             *)
(* (backtester.py).                                                        *)
(*                                                                         *)
(* Numbers.  Prices and thresholds are whole cents per litre.  Averages    *)
(* and metrics are exact rationals [n, d]; a rational with d = 0 stands    *)
(* for a division by zero.  A pandas Timestamp is [day, tod]: the calendar *)
(* day and whether a time of day past midnight is attached (tod = 1).      *)
(* An optional value (Python None) is a sequence: <<>> is None, <<x>> is x.*)
(***************************************************************************)
EXTENDS Integers, Sequences, FiniteSets, TLC

(***************************************************************************)
(* Bounds of the model.                                                    *)
(***************************************************************************)
\* longest daily series of the walk-forward specifications
MaxLen == 8
\* largest lookahead_days of the walk-forward specifications
MaxLook == 2
\* the wall clock runs from the last day of the data to MaxAge days later
MaxAge == 2
\* the walk-forward series may miss one stretch of days: the gap it leaves
LongGap == 4
\* longest daily series handed to the analyzers alone
MaxCycleLen == 6
\* the gap, in days, that a missing stretch leaves between two present days
MaxGap == 2
\* Strategy A inputs: avg_relenting is k/d, k in 0..MaxRelentNum, d in 1..MaxRelentDen
MaxRelentNum == 14
MaxRelentDen == 2
\* Strategy A inputs: days of last_hike_date and of the wall clock
MaxDay == 6
\* the length-check specification: series length and lookahead
MaxLongLen == 27
MaxLongLook == 21
\* the optimizer specification: longest daily series, and the stretch of
\* missing days its series may have
MaxOptLen == 13
OptGap == 20
\* the configuration specification: longest daily series handed to the analyzer
MaxConfigLen == 2
\* raw observations handed to the builder
MaxObservations == 3
\* load_config calls running alongside one save_config
NumReaders == 2
\* a persisted threshold that is no candidate of the optimizer's grid
OffGridThreshold == 20

(***************************************************************************)
(* Program constants.                                                      *)
(***************************************************************************)
\* default_config = {'hike_threshold': 8.0}
DefaultHikeThreshold == 8
\* min_history = max(5, ...)
MinHistoryFloor == 5
\* market_physics: daily_df['delta'] > 8.0
MPHikeThreshold == 8
\* run_backtest(df, lookahead_days=7, ...)
DefaultLookahead == 7
\* neural_forecast: HIKE_PEAK_OFFSET, BOTTOM_OFFSET and HIKE_DURATION of
\* __init__, and the 14 days of range(1, 15)
HIKE_PEAK_OFFSET == 24
BOTTOM_OFFSET == 2
HIKE_DURATION == 5
HorizonDays == 14
\* thresholds = np.arange(4.0, 12.5, 0.5): 17 values
GridSize == 17

None == <<>>
Some(x) == <<x>>

Max(a, b) == IF a >= b THEN a ELSE b

(***************************************************************************)
(* Exact rationals.                                                        *)
(***************************************************************************)
Rat(n, d) == [n |-> n, d |-> d]
RInt(k) == Rat(k, 1)
RDefined(r) == r.d # 0
RNorm(r) == IF r.d < 0 THEN Rat(-r.n, -r.d) ELSE r
REq(a, b) == a.d # 0 /\ b.d # 0 /\ a.n * b.d = b.n * a.d
RLess(a, b) == RNorm(a).n * RNorm(b).d < RNorm(b).n * RNorm(a).d
RLeq(a, b) == RNorm(a).n * RNorm(b).d <= RNorm(b).n * RNorm(a).d
RAdd(a, b) == Rat(a.n * b.d + b.n * a.d, a.d * b.d)
RSub(a, b) == Rat(a.n * b.d - b.n * a.d, a.d * b.d)
RMul(a, b) == Rat(a.n * b.n, a.d * b.d)
\* a / b; dividing by zero leaves d = 0
RDiv(a, b) == Rat(a.n * b.d, a.d * b.n)
\* int(r) of Python: truncation toward zero
RTrunc(r) ==
    LET q == RNorm(r)
    IN  IF q.n >= 0 THEN q.n \div q.d ELSE -((-q.n) \div q.d)

(***************************************************************************)
(* Timestamps.                                                             *)
(***************************************************************************)
Timestamp(day, tod) == [day |-> day, tod |-> tod]
Midnight(day) == Timestamp(day, 0)
\* Timestamp.normalize()
Normalize(ts) == Midnight(ts.day)
\* (a - b).days for b at or before a's day end: whole days, rounded down
DaysBetween(a, b) ==
    IF a.tod >= b.tod THEN a.day - b.day ELSE a.day - b.day - 1

VARIABLES
    daily,                  \* the daily series: <<[date, price_cpl], ...>>, by date
    lookahead_days,         \* run_backtest argument
    ground_truth_threshold, \* run_backtest argument
    algo_threshold,         \* run_backtest / analyze_cycles argument, None or a threshold
    config_file,            \* algo_config.json: None (no file) or the stored dict
    now,                    \* the wall clock, pd.Timestamp.now()
    pc,                     \* position of run_backtest: idle, loop, done
    i,                      \* loop index of run_backtest (0-based)
    min_history,            \* run_backtest local
    stop_idx,               \* run_backtest local
    results,                \* run_backtest local: the records appended so far
    metrics,                \* run_backtest return value: None or the metrics dict
    stats,                  \* last result of cycle_prediction.analyze_cycles, or None
    mp_stats,               \* last result of market_physics.analyze_cycles, or None
    pred_in,                \* the arguments of the last predict_status call, or None
    prediction,             \* last result of predict_status, or None
    prev,                   \* the previous finished run: None or [daily, results, metrics]
    raised,                 \* the exception the last operation ended with, "" for none
    pending_config,         \* st.session_state['pending_config'], or None
    opt,                    \* optimize_algorithm in progress: its locals, or None
    recommended,            \* last return value of optimize_algorithm, or None
    loaded,                 \* last return value of load_config, or None
    saved,                  \* the argument of the last save_config, or None
    physics,                \* last Strategy B call: its arguments and result, or None
    forecaster,             \* a NeuralForecaster and the locals of its call, or None
    observations,           \* the raw price observations handed to the builder
    procs                   \* concurrent save_config / load_config calls in progress

vars == <<daily, lookahead_days, ground_truth_threshold, algo_threshold, config_file,
          now, pc, i, min_history, stop_idx, results, metrics, stats, mp_stats,
          pred_in, prediction, prev, raised, pending_config, opt, recommended,
          loaded, saved, physics, forecaster, observations, procs>>

\* the state of the dashboard session, the configuration calls and Strategy B
session == <<raised, pending_config, opt, recommended, loaded, saved, physics,
             forecaster, observations, procs>>

(***************************************************************************)
(* cycle_prediction.load_config                                            *)
(***************************************************************************)
\* JSON values.  A number is a rational (the floats of the model are multiples
\* of 0.5); JString is a string such as "high"; a dict holds the key
\* 'hike_threshold' or no key at all; JList is an array.
JNumber(r) == [isnum |-> TRUE, val |-> r]
JString == [isnum |-> FALSE, val |-> RInt(0)]
Dict(has, v) == [isdict |-> TRUE, has_threshold |-> has, hike_threshold |-> v]
EmptyDict == Dict(FALSE, JString)
ConfigDict(r) == Dict(TRUE, JNumber(r))
JList == [isdict |-> FALSE, has_threshold |-> FALSE, hike_threshold |-> JString]

\* a variant that writes a number without its fractional digit
FloatReprWhole(r) == [whole |-> r.n \div r.d, tenths |-> 0]

\* float.__repr__ of a multiple of 0.5: the whole part and one fractional digit
FloatRepr(r) == [whole |-> r.n \div r.d, tenths |-> ((r.n % r.d) * 10) \div r.d]

\* float(text)
ParseFloat(t) == Rat(t.whole * 10 + t.tenths, 10)

\* the tokens of the text of a value: { "hike_threshold" : value } for a dict
\* with the key, { } for an empty dict, [ ] for the list
TextLength(v) == IF v.isdict /\ v.has_threshold THEN 5 ELSE 2

\* json.dump: the text of algo_config.json, and how many of its tokens are in
\* the file (all of them once the file is closed)
json_dump(v) ==
    [state |-> "json", isdict |-> v.isdict, has_threshold |-> v.has_threshold,
     hike_threshold |-> [isnum |-> v.hike_threshold.isnum,
                         text  |-> FloatRepr(v.hike_threshold.val)],
     written |-> TextLength(v)]

\* json.load of a text that parses
json_load(t) ==
    [isdict |-> t.isdict, has_threshold |-> t.has_threshold,
     hike_threshold |-> [isnum |-> t.hike_threshold.isnum,
                         val   |-> ParseFloat(t.hike_threshold.text)]]

\* a file that open() cannot read, and a file whose text is not JSON
UnreadableFile == [json_dump(JList) EXCEPT !.state = "unreadable"]
GarbageFile == [json_dump(JList) EXCEPT !.state = "garbage"]

default_config == ConfigDict(RInt(DefaultHikeThreshold))

\* a variant whose parser returns the dict read so far when the text ends early
LoadConfigLenient ==
    IF config_file = None THEN default_config
    ELSE IF config_file[1].state # "json" THEN default_config
    ELSE IF config_file[1].written < TextLength(config_file[1])
    THEN IF config_file[1].written >= 4
         THEN json_load(config_file[1]) ELSE EmptyDict
    ELSE json_load(config_file[1])

\* lines 19-25; a text that stops before its closing bracket is no JSON:
\* json.load raises and the except clause passes
load_config ==
    IF config_file = None THEN default_config
    ELSE IF config_file[1].state # "json" THEN default_config
    ELSE IF config_file[1].written < TextLength(config_file[1]) THEN default_config
    ELSE json_load(config_file[1])

\* config.get('hike_threshold', 8.0); a list has no get
get_raises(config) == ~config.isdict

config_get(config) ==
    IF config.has_threshold THEN config.hike_threshold
    ELSE JNumber(RInt(DefaultHikeThreshold))

(***************************************************************************)
(* cycle_prediction.analyze_cycles                                         *)
(***************************************************************************)
\* daily_df['price_cpl'].diff() at row k (1-based); row 1 has no change (NaN)
Change(df, k) == df[k].price_cpl - df[k - 1].price_cpl

\* a variant that counts a change equal to the threshold
IsHikeRowInclusive(df, k, hike_threshold) ==
    k >= 2 /\ RLeq(hike_threshold, RInt(Change(df, k)))

\* rows whose change exceeds the threshold; NaN > x is False
IsHikeRow(df, k, hike_threshold) ==
    k >= 2 /\ RLess(hike_threshold, RInt(Change(df, k)))

RECURSIVE HikeDatesUpTo(_, _, _)
HikeDatesUpTo(df, k, hike_threshold) ==
    IF k = 0 THEN <<>>
    ELSE IF IsHikeRow(df, k, hike_threshold)
         THEN Append(HikeDatesUpTo(df, k - 1, hike_threshold), df[k].date)
         ELSE HikeDatesUpTo(df, k - 1, hike_threshold)

hike_dates(df, hike_threshold) == HikeDatesUpTo(df, Len(df), hike_threshold)

\* rows with start <= date < end
CycleRows(df, start, end) ==
    {k \in 1..Len(df) : df[k].date >= start /\ df[k].date < end}

MinPrice(df, rows) ==
    CHOOSE p \in {df[k].price_cpl : k \in rows} :
        \A k \in rows : p <= df[k].price_cpl

\* a variant that takes the last row carrying the minimum price
MinDateRowLast(df, rows) ==
    CHOOSE k \in rows :
        /\ df[k].price_cpl = MinPrice(df, rows)
        /\ \A j \in rows : df[j].price_cpl = MinPrice(df, rows) => k >= j

\* the first row, in row order, that carries the minimum price
MinDateRow(df, rows) ==
    CHOOSE k \in rows :
        /\ df[k].price_cpl = MinPrice(df, rows)
        /\ \A j \in rows : df[j].price_cpl = MinPrice(df, rows) => k <= j

\* the cycles list: one [total_days, relenting_days] per pair of consecutive hikes
RECURSIVE CyclesFrom(_, _, _)
CyclesFrom(df, hd, j) ==
    IF j >= Len(hd) THEN <<>>
    ELSE LET start == hd[j]
             end   == hd[j + 1]
             rows  == CycleRows(df, start, end)
         IN  IF rows = {} THEN CyclesFrom(df, hd, j + 1)
             ELSE <<[total_days     |-> end - start,
                     relenting_days |-> df[MinDateRow(df, rows)].date - start]>>
                  \o CyclesFrom(df, hd, j + 1)

cycles(df, hike_threshold) == CyclesFrom(df, hike_dates(df, hike_threshold), 1)

RECURSIVE SumTotal(_)
SumTotal(cs) == IF cs = <<>> THEN 0 ELSE cs[1].total_days + SumTotal(Tail(cs))

RECURSIVE SumRelenting(_)
SumRelenting(cs) == IF cs = <<>> THEN 0 ELSE cs[1].relenting_days + SumRelenting(Tail(cs))

\* a variant that anchors the fallback ten days back, as market_physics does
FallbacksAnchored(clock) ==
    [avg_len |-> RInt(30), avg_relent |-> RInt(20),
     last_hike |-> Timestamp(clock.day - 10, clock.tod)]

\* the (avg_len, avg_relent, last_hike) triple of the early return
Fallbacks(clock) ==
    [avg_len |-> RInt(30), avg_relent |-> RInt(20), last_hike |-> clock]

\* the exception analyze_cycles ends with, "" for none: a config that is not a
\* dict has no get; a threshold that is not a number cannot be compared with
\* the changes of the series
analyze_raises(df, hike_threshold_arg) ==
    IF hike_threshold_arg # None THEN ""
    ELSE IF get_raises(load_config) THEN "AttributeError"
    ELSE IF ~config_get(load_config).isnum /\ Len(df) >= 2 THEN "TypeError"
    ELSE ""

analyze_cycles(df, hike_threshold_arg, clock) ==
    LET hike_threshold == IF hike_threshold_arg = None
                          THEN config_get(load_config).val
                          ELSE hike_threshold_arg[1]
        hd == hike_dates(df, hike_threshold)
        cs == cycles(df, hike_threshold)
    IN  IF cs = <<>> THEN Fallbacks(clock)
        ELSE [avg_len    |-> Rat(SumTotal(cs), Len(cs)),
              avg_relent |-> Rat(SumRelenting(cs), Len(cs)),
              last_hike  |-> IF hd # <<>> THEN Midnight(hd[Len(hd)]) ELSE clock]

(***************************************************************************)
(* cycle_prediction.predict_status (Strategy A)                            *)
(***************************************************************************)
\* a variant that decides on the truncated days_remaining it reports
StatusFromTruncated(days_elapsed, est_days_remaining) ==
    LET r == IF RLess(RInt(0), est_days_remaining)
             THEN RTrunc(est_days_remaining) ELSE 0
    IN  IF days_elapsed < 3 THEN "HIKE"
        ELSE IF r > 3 THEN "DROPPING"
        ELSE IF r > 0 THEN "BOTTOM"
        ELSE "OVERDUE"

\* a variant that takes a hike as under way only from the day of the hike on
StatusFromHikeDay(days_elapsed, est_days_remaining) ==
    IF 0 <= days_elapsed /\ days_elapsed < 3 THEN "HIKE"
    ELSE IF RLess(RInt(3), est_days_remaining) THEN "DROPPING"
    ELSE IF RLess(RInt(0), est_days_remaining) THEN "BOTTOM"
    ELSE "OVERDUE"

StatusReported(days_elapsed, est_days_remaining) ==
    IF days_elapsed < 3 THEN "HIKE"
    ELSE IF RLess(RInt(3), est_days_remaining) THEN "DROPPING"
    ELSE IF RLess(RInt(0), est_days_remaining) THEN "BOTTOM"
    ELSE "OVERDUE"

\* a variant without the clamp at zero
DaysRemainingUnclamped(est_days_remaining) == RTrunc(est_days_remaining)

DaysRemaining(est_days_remaining) ==
    IF RLess(RInt(0), est_days_remaining) THEN RTrunc(est_days_remaining) ELSE 0

predict_status(avg_relenting, last_hike_date, clock) ==
    LET today == Normalize(clock)
        days_elapsed == DaysBetween(today, last_hike_date)
        est_days_remaining == RSub(avg_relenting, RInt(days_elapsed))
    IN  [last_hike      |-> last_hike_date.day,
         days_elapsed   |-> days_elapsed,
         days_remaining |-> DaysRemaining(est_days_remaining),
         status         |-> StatusReported(days_elapsed, est_days_remaining)]

(***************************************************************************)
(* market_physics.analyze_cycles                                           *)
(***************************************************************************)
\* DataFrame.sort_values on the day column (stable insertion into place)
RECURSIVE InsertByDate(_, _)
InsertByDate(sorted, row) ==
    IF sorted = <<>> THEN <<row>>
    ELSE IF sorted[Len(sorted)].date <= row.date THEN Append(sorted, row)
    ELSE Append(InsertByDate(SubSeq(sorted, 1, Len(sorted) - 1), row),
                sorted[Len(sorted)])

RECURSIVE SortByDate(_)
SortByDate(df) ==
    IF df = <<>> THEN <<>>
    ELSE InsertByDate(SortByDate(SubSeq(df, 1, Len(df) - 1)), df[Len(df)])

MinDay(df) == CHOOSE d \in {df[k].date : k \in 1..Len(df)} :
                  \A k \in 1..Len(df) : d <= df[k].date

mp_analyze_cycles(daily_df, clock) ==
    IF daily_df = <<>>
    THEN [avg_len |-> RInt(21), avg_relent |-> RInt(14),
          last_hike |-> Timestamp(clock.day - 10, clock.tod)]
    ELSE LET df    == SortByDate(daily_df)
             hikes == hike_dates(df, RInt(MPHikeThreshold))
             n     == Len(hikes)
         IN  IF n = 0
             THEN [avg_len |-> RInt(30), avg_relent |-> RInt(25),
                   last_hike |-> Midnight(MinDay(df))]
             ELSE IF n > 1
             THEN LET avg_len    == Rat(hikes[n] - hikes[1], n - 1)
                      avg_relent == RMul(avg_len, Rat(8, 10))
                  IN  [avg_len    |-> RInt(RTrunc(avg_len)),
                       avg_relent |-> RInt(RTrunc(avg_relent)),
                       last_hike  |-> Midnight(hikes[n])]
             ELSE [avg_len |-> RInt(35), avg_relent |-> RInt(28),
                   last_hike |-> Midnight(hikes[n])]

(***************************************************************************)
(* market_physics: Strategy B                                              *)
(***************************************************************************)
\* round(x, digits) for scale = 10^digits: to the nearest, ties to even
RRound(x, scale) ==
    LET q   == RNorm(x)
        num == q.n * scale
        fl  == num \div q.d
        twice_rest == 2 * (num - fl * q.d)
    IN  IF twice_rest < q.d THEN Rat(fl, scale)
        ELSE IF twice_rest > q.d THEN Rat(fl + 1, scale)
        ELSE IF fl % 2 = 0 THEN Rat(fl, scale) ELSE Rat(fl + 1, scale)

calculate_margin_pressure(retail_median, tgp) ==
    IF retail_median = None \/ tgp = None THEN RInt(0)
    ELSE RSub(retail_median[1], tgp[1])

\* a variant in which a long cycle weighs as much as a squeezed margin
EstimateDurationHeavy(margin, duration, tgp_trend_val) ==
    LET prob == (IF RLess(margin, RInt(2)) THEN 50 ELSE 0)
                + (IF RLess(margin, RInt(0)) THEN 30 ELSE 0)
                + (IF duration > 35 THEN 50 ELSE 0)
                - (IF RLess(tgp_trend_val, Rat(-1, 2)) THEN 40 ELSE 0)
    IN  Rat(Max(0, IF prob <= 100 THEN prob ELSE 100), 100)

\* a variant in which a negative margin counts 0.30 in place of the 0.50
EstimateNotCumulative(margin, duration, tgp_trend_val) ==
    LET prob == (IF RLess(margin, RInt(0)) THEN 30
                 ELSE IF RLess(margin, RInt(2)) THEN 50 ELSE 0)
                + (IF duration > 35 THEN 10 ELSE 0)
                - (IF RLess(tgp_trend_val, Rat(-1, 2)) THEN 40 ELSE 0)
    IN  Rat(Max(0, IF prob <= 100 THEN prob ELSE 100), 100)

\* prob in hundredths: +0.50, +0.30, +0.10, -0.40, then max(0.0, min(1.0, prob))
estimate_hike_probability(margin, duration, tgp_trend_val) ==
    LET prob == (IF RLess(margin, RInt(2)) THEN 50 ELSE 0)
                + (IF RLess(margin, RInt(0)) THEN 30 ELSE 0)
                + (IF duration > 35 THEN 10 ELSE 0)
                - (IF RLess(tgp_trend_val, Rat(-1, 2)) THEN 40 ELSE 0)
    IN  Rat(Max(0, IF prob <= 100 THEN prob ELSE 100), 100)

\* a variant that looks at the probability before the volatility
StatusProbabilityFirst(volatility, prob, margin) ==
    IF RLess(Rat(7, 10), prob) THEN "HIKE_IMMINENT"
    ELSE IF RLess(RInt(5), volatility) THEN "HIKE_STARTED"
    ELSE IF RLess(Rat(4, 10), prob) THEN "WARNING"
    ELSE IF RLess(RInt(20), margin) THEN "DROPPING"
    ELSE IF RLess(margin, RInt(5)) THEN "BOTTOM"
    ELSE "STABLE"

\* lines 101-118
StatusB(volatility, prob, margin) ==
    IF RLess(RInt(5), volatility) THEN "HIKE_STARTED"
    ELSE IF RLess(Rat(7, 10), prob) THEN "HIKE_IMMINENT"
    ELSE IF RLess(Rat(4, 10), prob) THEN "WARNING"
    ELSE IF RLess(RInt(20), margin) THEN "DROPPING"
    ELSE IF RLess(margin, RInt(5)) THEN "BOTTOM"
    ELSE "STABLE"

AdviceB(status) ==
    IF status \in {"HIKE_STARTED", "HIKE_IMMINENT"} THEN "FILL NOW"
    ELSE IF status = "WARNING" THEN "Top Up"
    ELSE IF status = "DROPPING" THEN "Wait"
    ELSE IF status = "BOTTOM" THEN "Buy"
    ELSE "Hold"

mp_predict_status(current_median, tgp, duration, tgp_trend_val, volatility) ==
    LET margin == calculate_margin_pressure(current_median, tgp)
        prob   == estimate_hike_probability(margin, duration, tgp_trend_val)
        status == StatusB(volatility, prob, margin)
    IN  [status           |-> status,
         advice           |-> AdviceB(status),
         hike_probability |-> RRound(RMul(prob, RInt(100)), 10),
         margin           |-> RRound(margin, 100),
         volatility       |-> RRound(volatility, 100)]

\* one Strategy B call: the arguments, the margin and the probability it
\* works with, and the result
MPPredictStatus(current_median, tgp, duration, tgp_trend_val, volatility) ==
    /\ pc = "idle"
    /\ physics' = Some(
           [current_median |-> current_median, tgp |-> tgp, duration |-> duration,
            tgp_trend_val |-> tgp_trend_val, volatility |-> volatility,
            margin |-> calculate_margin_pressure(current_median, tgp),
            prob   |-> estimate_hike_probability(
                           calculate_margin_pressure(current_median, tgp),
                           duration, tgp_trend_val),
            result |-> mp_predict_status(current_median, tgp, duration,
                                         tgp_trend_val, volatility)])
    /\ UNCHANGED <<raised, pending_config, opt, recommended, loaded, saved,
                   forecaster, observations, procs>>
    /\ UNCHANGED <<daily, lookahead_days, ground_truth_threshold, algo_threshold,
                   config_file, now, pc, i, min_history, stop_idx, results, metrics,
                   stats, mp_stats, pred_in, prediction, prev>>

(***************************************************************************)
(* backtester.run_backtest                                                 *)
(***************************************************************************)
\* a variant that rounds 0.2 * len up instead of down
MinHistoryCeil(n) == Max(MinHistoryFloor, (n * 2 + 9) \div 10)

\* min_history = max(5, int(len(daily) * 0.2))
MinHistory(n) == Max(MinHistoryFloor, (n * 2) \div 10)

\* a variant whose slice runs one day past day idx
HistoryWithTomorrow(series, idx) ==
    SubSeq(series, 1, IF idx + 2 <= Len(series) THEN idx + 2 ELSE Len(series))

\* history_window = daily.iloc[:i+1]: rows 0..i (0-based), here rows 1..i+1
history_window(series, idx) == SubSeq(series, 1, idx + 1)

\* a variant whose window ends one day early
FutureWindowShort(series, idx, lookahead) ==
    {k \in 1..Len(series) : idx + 2 <= k /\ k <= idx + lookahead}

\* future_window = daily.iloc[i+1 : i+1+lookahead_days], as 1-based row numbers
future_window(series, idx, lookahead) ==
    {k \in 1..Len(series) : idx + 2 <= k /\ k <= idx + 1 + lookahead}

MaxPrice(series, rows) ==
    CHOOSE p \in {series[k].price_cpl : k \in rows} :
        \A k \in rows : series[k].price_cpl <= p

\* a variant that forgets to subtract the current price
ActualHikeAbsolute(series, idx, lookahead, threshold) ==
    LET w == future_window(series, idx, lookahead)
    IN  IF w # {} /\ MaxPrice(series, w) > threshold THEN 1 ELSE 0

\* actual_hike; the maximum of an empty window is NaN, and NaN > x is False
actual_hike(series, idx, lookahead, threshold) ==
    LET w == future_window(series, idx, lookahead)
    IN  IF w # {} /\ MaxPrice(series, w) - series[idx + 1].price_cpl > threshold
        THEN 1 ELSE 0

\* signal_hike of day idx: the analyzer and the predictor on the history slice
signal_hike(series, idx, threshold_arg, clock) ==
    LET st   == analyze_cycles(history_window(series, idx), threshold_arg, clock)
        pred == predict_status(st.avg_relent, st.last_hike, clock)
    IN  IF pred.status \in {"HIKE", "OVERDUE"} THEN 1 ELSE 0

CountRecords(rs, signal, actual) ==
    Cardinality({k \in 1..Len(rs) :
                    rs[k].signal_hike = signal /\ rs[k].actual_hike = actual})

\* a variant that divides without looking at the denominator
RatioUnguarded(num, den) == Rat(num, den)

\* x / y if y > 0 else 0
RatioOrZero(num, den) == IF den > 0 THEN Rat(num, den) ELSE RInt(0)

\* 2 * (precision * recall) / (precision + recall) if (precision + recall) > 0 else 0
F1Score(precision, recall) ==
    IF RLess(RInt(0), RAdd(precision, recall))
    THEN RDiv(RMul(RInt(2), RMul(precision, recall)), RAdd(precision, recall))
    ELSE RInt(0)

\* the metrics dict of a non-empty results_df
compute_metrics(rs) ==
    LET tp == CountRecords(rs, 1, 1)
        fp == CountRecords(rs, 1, 0)
        tn == CountRecords(rs, 0, 0)
        fn == CountRecords(rs, 0, 1)
        precision == RatioOrZero(tp, tp + fp)
        recall    == RatioOrZero(tp, tp + fn)
    IN  [total_days |-> Len(rs),
         accuracy   |-> Rat(tp + tn, Len(rs)),
         precision  |-> precision,
         recall     |-> recall,
         f1_score   |-> F1Score(precision, recall),
         confusion  |-> [tp |-> tp, fp |-> fp, tn |-> tn, fn |-> fn]]

\* a variant without the length check of line 29
StartBacktestUnchecked ==
    /\ pc = "idle"
    /\ LET n  == Len(daily)
           mh == MinHistory(n)
           si == n - lookahead_days
       IN  /\ pc' = "loop"
           /\ stop_idx' = si
           /\ min_history' = IF mh >= si THEN Max(0, si - 5) ELSE mh
           /\ i' = min_history'
    /\ results' = <<>>
    /\ metrics' = None
    /\ UNCHANGED <<session, daily, lookahead_days, ground_truth_threshold,
                   algo_threshold, config_file, now, stats, mp_stats, pred_in,
                   prediction, prev>>

\* lines 16-35: the daily series is taken as built; the length check and the
\* loop bounds
StartBacktest ==
    /\ pc = "idle"
    /\ LET n  == Len(daily)
           mh == MinHistory(n)
           si == n - lookahead_days
       IN  IF n < mh + lookahead_days + 1
           THEN /\ pc' = "done"
                /\ UNCHANGED <<session, i, min_history, stop_idx>>
           ELSE /\ pc' = "loop"
                /\ stop_idx' = si
                /\ min_history' = IF mh >= si THEN Max(0, si - 5) ELSE mh
                /\ i' = min_history'
    /\ results' = <<>>
    /\ metrics' = None
    /\ UNCHANGED <<session, daily, lookahead_days, ground_truth_threshold, algo_threshold,
                   config_file, now, stats, mp_stats, pred_in, prediction, prev>>

\* lines 37-62: one pass of the loop, for day i
BacktestStep ==
    /\ pc = "loop"
    /\ i < stop_idx
    /\ raised' = analyze_raises(history_window(daily, i), algo_threshold)
    /\ IF raised' = ""
       THEN /\ results' = Append(results,
                   [date        |-> daily[i + 1].date,
                    price       |-> daily[i + 1].price_cpl,
                    signal_hike |-> signal_hike(daily, i, algo_threshold, now),
                    actual_hike |-> actual_hike(daily, i, lookahead_days,
                                                ground_truth_threshold)])
            /\ i' = i + 1
            /\ pc' = pc
       ELSE /\ pc' = "raised"
            /\ UNCHANGED <<results, i>>
    /\ UNCHANGED <<pending_config, opt, recommended, loaded, saved, physics,
                   forecaster, observations, procs>>
    /\ UNCHANGED <<daily, lookahead_days, ground_truth_threshold, algo_threshold,
                   config_file, now, min_history, stop_idx, metrics,
                   stats, mp_stats, pred_in, prediction, prev>>

\* lines 64-87: the loop is over; the metrics, or None for an empty results_df
FinishBacktest ==
    /\ pc = "loop"
    /\ i >= stop_idx
    /\ metrics' = IF results = <<>> THEN None ELSE Some(compute_metrics(results))
    /\ pc' = "done"
    /\ UNCHANGED <<session, daily, lookahead_days, ground_truth_threshold, algo_threshold,
                   config_file, now, i, min_history, stop_idx, results,
                   stats, mp_stats, pred_in, prediction, prev>>

\* what run_backtest returns: (metrics, results_df) or (None, None)
Returned == IF metrics = None THEN <<None, None>> ELSE <<metrics, Some(results)>>

\* lines 24-62 as a function of the arguments and of the clock: the records
\* of the loop
backtest_records(series, lookahead, gt_threshold, threshold_arg, clock) ==
    LET n  == Len(series)
        si == n - lookahead
        mh == IF MinHistory(n) >= si THEN Max(0, si - 5) ELSE MinHistory(n)
    IN  [r \in 1..(si - mh) |->
            [date        |-> series[mh + r].date,
             price       |-> series[mh + r].price_cpl,
             signal_hike |-> signal_hike(series, mh + r - 1, threshold_arg, clock),
             actual_hike |-> actual_hike(series, mh + r - 1, lookahead,
                                         gt_threshold)]]

\* the metrics run_backtest returns, or None
run_backtest(series, lookahead, gt_threshold, threshold_arg, clock) ==
    IF Len(series) < MinHistory(Len(series)) + lookahead + 1 THEN None
    ELSE LET rs == backtest_records(series, lookahead, gt_threshold,
                                    threshold_arg, clock)
         IN  IF rs = <<>> THEN None ELSE Some(compute_metrics(rs))

(***************************************************************************)
(* backtester.optimize_algorithm and the dashboard's optimize and save     *)
(* buttons                                                                 *)
(***************************************************************************)
\* np.arange(4.0, 12.5, 0.5)
thresholds == [j \in 1..GridSize |-> Rat(7 + j, 2)]

\* a variant that scores by F1 alone
ScorePlainF1(m) == m.f1_score

\* score = metrics['f1_score']; if score == 0: score = metrics['accuracy']
Score(m) == IF REq(m.f1_score, RInt(0)) THEN m.accuracy ELSE m.f1_score

\* abs(a - b) < 0.1
Near(a, b) ==
    /\ RLess(RSub(a, b), Rat(1, 10))
    /\ RLess(RSub(b, a), Rat(1, 10))

\* lines 91-99: the locals before the loop; load_config may hand back a list
OptimizeStart ==
    /\ pc \in {"idle", "done", "raised"}
    /\ opt = None
    /\ IF get_raises(load_config)
       THEN /\ raised' = "AttributeError"
            /\ opt' = None
       ELSE /\ raised' = ""
            /\ opt' = Some([k             |-> 1,
                            best_score    |-> RInt(-1),
                            best_thresh   |-> RInt(DefaultHikeThreshold),
                            current_thresh |-> config_get(load_config),
                            current_score |-> RInt(0)])
    /\ recommended' = None
    /\ UNCHANGED <<pending_config, loaded, saved, physics,
                   forecaster, observations, procs>>
    /\ UNCHANGED <<daily, lookahead_days, ground_truth_threshold, algo_threshold,
                   config_file, now, pc, i, min_history, stop_idx, results, metrics,
                   stats, mp_stats, pred_in, prediction, prev>>

\* lines 101-113: one pass of the grid loop
OptimizeStep ==
    /\ opt # None
    /\ opt[1].k <= GridSize
    /\ LET o      == opt[1]
           thresh == thresholds[o.k]
           m      == run_backtest(daily, DefaultLookahead, ground_truth_threshold,
                                  Some(thresh), now)
       IN  IF m = None
           THEN /\ opt' = Some([o EXCEPT !.k = o.k + 1])
                /\ raised' = raised
           ELSE IF ~o.current_thresh.isnum
           THEN /\ opt' = None
                /\ raised' = "TypeError"
           ELSE LET score == Score(m[1])
                    better == RLess(o.best_score, score)
                IN  /\ opt' = Some([k |-> o.k + 1,
                           best_score  |-> IF better THEN score ELSE o.best_score,
                           best_thresh |-> IF better THEN thresh ELSE o.best_thresh,
                           current_thresh |-> o.current_thresh,
                           current_score |->
                               IF Near(thresh, o.current_thresh.val)
                               THEN score ELSE o.current_score])
                    /\ raised' = raised
    /\ UNCHANGED <<pending_config, recommended, loaded, saved, physics,
                   forecaster, observations, procs>>
    /\ UNCHANGED <<daily, lookahead_days, ground_truth_threshold, algo_threshold,
                   config_file, now, pc, i, min_history, stop_idx, results, metrics,
                   stats, mp_stats, pred_in, prediction, prev>>

\* a variant that persists the recommendation it found by itself
OptimizeFinishAutosave ==
    /\ opt # None
    /\ opt[1].k > GridSize
    /\ LET o == opt[1]
           found == RLess(Rat(1, 100), RSub(o.best_score, o.current_score))
           best_config == IF found THEN ConfigDict(o.best_thresh)
                          ELSE Dict(TRUE, o.current_thresh)
       IN  /\ recommended' = Some([config |-> best_config,
                                   msg |-> IF found THEN "Found optimized threshold"
                                           ELSE "Current threshold is optimal"])
           /\ config_file' = IF found THEN Some(json_dump(best_config))
                             ELSE config_file
    /\ opt' = None
    /\ UNCHANGED <<raised, pending_config, loaded, saved, physics,
                   forecaster, observations, procs>>
    /\ UNCHANGED <<daily, lookahead_days, ground_truth_threshold, algo_threshold,
                   now, pc, i, min_history, stop_idx, results, metrics,
                   stats, mp_stats, pred_in, prediction, prev>>

\* a variant without line 120: the best threshold is returned in both cases
OptimizeFinishKeepsBest ==
    /\ opt # None
    /\ opt[1].k > GridSize
    /\ LET o == opt[1]
           found == RLess(Rat(1, 100), RSub(o.best_score, o.current_score))
           best_config == ConfigDict(o.best_thresh)
       IN  /\ recommended' = Some([config |-> best_config,
                                   msg |-> IF found THEN "Found optimized threshold"
                                           ELSE "Current threshold is optimal"])
           /\ pending_config' = IF found THEN Some(best_config) ELSE pending_config
    /\ opt' = None
    /\ UNCHANGED <<raised, loaded, saved, physics,
                   forecaster, observations, procs>>
    /\ UNCHANGED <<daily, lookahead_days, ground_truth_threshold, algo_threshold,
                   config_file, now, pc, i, min_history, stop_idx, results, metrics,
                   stats, mp_stats, pred_in, prediction, prev>>

\* lines 115-122, and the caller (fuel_dashboard.py 895-899): a recommendation
\* whose message does not read "optimal" becomes the pending config
OptimizeFinish ==
    /\ opt # None
    /\ opt[1].k > GridSize
    /\ LET o == opt[1]
           improvement == RSub(o.best_score, o.current_score)
           found == RLess(Rat(1, 100), improvement)
           best_config == IF found THEN ConfigDict(o.best_thresh)
                          ELSE Dict(TRUE, o.current_thresh)
       IN  /\ recommended' = Some([config |-> best_config,
                                   msg |-> IF found THEN "Found optimized threshold"
                                           ELSE "Current threshold is optimal"])
           /\ pending_config' = IF found THEN Some(best_config) ELSE pending_config
    /\ opt' = None
    /\ UNCHANGED <<raised, loaded, saved, physics,
                   forecaster, observations, procs>>
    /\ UNCHANGED <<daily, lookahead_days, ground_truth_threshold, algo_threshold,
                   config_file, now, pc, i, min_history, stop_idx, results, metrics,
                   stats, mp_stats, pred_in, prediction, prev>>

\* fuel_dashboard.py 901-907: the save button writes the pending config
SavePending ==
    /\ pc \in {"idle", "done", "raised"}
    /\ opt = None
    /\ pending_config # None
    /\ config_file' = Some(json_dump(pending_config[1]))
    /\ saved' = pending_config
    /\ pending_config' = None
    /\ loaded' = None
    /\ UNCHANGED <<raised, opt, recommended, physics,
                   forecaster, observations, procs>>
    /\ UNCHANGED <<daily, lookahead_days, ground_truth_threshold, algo_threshold,
                   now, pc, i, min_history, stop_idx, results, metrics,
                   stats, mp_stats, pred_in, prediction, prev>>

(***************************************************************************)
(* Inputs.                                                                 *)
(***************************************************************************)
PriceLevels == {150, 160}

\* the date of row k when row 1 is day 0 and gaps[j] days lie before row j
RECURSIVE DateAt(_, _)
DateAt(gaps, k) == IF k <= 1 THEN 0 ELSE DateAt(gaps, k - 1) + gaps[k]

MkSeries(prices, gaps) ==
    [k \in 1..Len(prices) |-> [date |-> DateAt(gaps, k), price_cpl |-> prices[k]]]

\* daily series of n present days on consecutive calendar days
ConsecutiveSeries(n) ==
    {MkSeries(ps, [k \in 2..n |-> 1]) : ps \in [1..n -> PriceLevels]}

\* daily series of n present days, with missing days between them
GappedSeries(n) ==
    {MkSeries(ps, gs) : ps \in [1..n -> PriceLevels], gs \in [2..n -> {1, MaxGap}]}

\* daily series of n present days with at most one stretch of missing days
OneGapSeries(n) ==
    {MkSeries(ps, [k \in 2..n |-> IF k = g THEN LongGap ELSE 1]) :
        ps \in [1..n -> PriceLevels], g \in 1..n}

LastDate(df) == IF df = <<>> THEN 0 ELSE df[Len(df)].date

IsFlat(df) == \A k \in 1..Len(df) : df[k].price_cpl = df[1].price_cpl

TypeOK ==
    /\ pc \in {"idle", "loop", "done", "raised"}
    /\ now.tod \in {0, 1}
    /\ \A k \in 2..Len(daily) : daily[k - 1].date < daily[k].date

(***************************************************************************)
(* The analyzers and Strategy A as operations.                             *)
(***************************************************************************)
AnalyzeCycles ==
    /\ pc = "idle"
    /\ raised' = analyze_raises(daily, algo_threshold)
    /\ stats' = IF raised' = "" THEN Some(analyze_cycles(daily, algo_threshold, now))
                 ELSE stats
    /\ UNCHANGED <<pending_config, opt, recommended, loaded, saved, physics,
                   forecaster, observations, procs>>
    /\ UNCHANGED <<daily, lookahead_days, ground_truth_threshold, algo_threshold,
                   config_file, now, pc, i, min_history, stop_idx, results, metrics,
                   mp_stats, pred_in, prediction, prev>>

MPAnalyzeCycles ==
    /\ pc = "idle"
    /\ mp_stats' = Some(mp_analyze_cycles(daily, now))
    /\ UNCHANGED <<session, daily, lookahead_days, ground_truth_threshold, algo_threshold,
                   config_file, now, pc, i, min_history, stop_idx, results, metrics,
                   stats, pred_in, prediction, prev>>

\* predict_status(avg_relent, last_hike) on an analysis result
PredictStatus ==
    /\ pc = "idle"
    /\ stats # None
    /\ pred_in' = Some([avg_relenting |-> stats[1].avg_relent,
                        last_hike_date |-> stats[1].last_hike, clock |-> now])
    /\ prediction' = Some(predict_status(stats[1].avg_relent, stats[1].last_hike, now))
    /\ UNCHANGED <<session, daily, lookahead_days, ground_truth_threshold, algo_threshold,
                   config_file, now, pc, i, min_history, stop_idx, results, metrics,
                   stats, mp_stats, prev>>

\* the wall clock moves on by a day
Tick ==
    /\ now.day < LastDate(daily) + MaxAge
    /\ now' = Timestamp(now.day + 1, now.tod)
    /\ UNCHANGED <<session, daily, lookahead_days, ground_truth_threshold, algo_threshold,
                   config_file, pc, i, min_history, stop_idx, results, metrics,
                   stats, mp_stats, pred_in, prediction, prev>>

InitIdle ==
    /\ pc = "idle"
    /\ i = 0
    /\ min_history = 0
    /\ stop_idx = 0
    /\ results = <<>>
    /\ metrics = None
    /\ mp_stats = None
    /\ pred_in = None
    /\ prediction = None
    /\ prev = None
    /\ raised = ""
    /\ pending_config = None
    /\ opt = None
    /\ recommended = None
    /\ loaded = None
    /\ saved = None
    /\ physics = None
    /\ forecaster = None
    /\ observations = [raw |-> <<>>, builder |-> ""]
    /\ procs = None

(***************************************************************************)
(* SpecAnalyze: the analyzers on every bounded daily series.               *)
(***************************************************************************)
\* (hike_threshold argument, algo_config.json)
AnalyzeThresholds ==
    {<<None, None>>, <<None, Some(json_dump(ConfigDict(RInt(9))))>>,
     <<Some(RInt(10)), None>>}

InitAnalyze ==
    /\ InitIdle
    /\ stats = None
    /\ lookahead_days = 7
    /\ ground_truth_threshold = 5
    /\ \E n \in 0..MaxCycleLen : daily \in GappedSeries(n)
    /\ \E t \in AnalyzeThresholds : algo_threshold = t[1] /\ config_file = t[2]
    /\ now = Timestamp(LastDate(daily) + 1, 1)

NextAnalyze == AnalyzeCycles \/ MPAnalyzeCycles \/ PredictStatus

SpecAnalyze == InitAnalyze /\ [][NextAnalyze]_vars

(***************************************************************************)
(* SpecStrategyA: predict_status on every bounded (avg_relenting,          *)
(* last_hike_date) and every bounded wall clock.                           *)
(***************************************************************************)
RelentInputs == {Rat(k, d) : k \in 0..MaxRelentNum, d \in 1..MaxRelentDen}
LastHikeInputs == {Timestamp(day, t) : day \in 0..MaxDay, t \in {0, 1}}

InitStrategyA ==
    /\ InitIdle
    /\ lookahead_days = 7
    /\ ground_truth_threshold = 5
    /\ daily = <<>>
    /\ algo_threshold = None
    /\ config_file = None
    /\ \E a \in RelentInputs, h \in LastHikeInputs :
           stats = Some([avg_len |-> RInt(30), avg_relent |-> a, last_hike |-> h])
    /\ now \in {Timestamp(day, t) : day \in 0..MaxDay, t \in {0, 1}}

NextStrategyA == PredictStatus

SpecStrategyA == InitStrategyA /\ [][NextStrategyA]_vars

(***************************************************************************)
(* Spec: walk-forward backtests of every bounded daily series, run a       *)
(* second time on the same inputs while the wall clock moves on.           *)
(***************************************************************************)
\* the caller runs the backtest again on the same inputs
Rerun ==
    /\ pc = "done"
    /\ prev = None
    /\ prev' = Some([daily |-> daily, results |-> results, metrics |-> metrics])
    /\ pc' = "idle"
    /\ i' = 0
    /\ min_history' = 0
    /\ stop_idx' = 0
    /\ results' = <<>>
    /\ metrics' = None
    /\ UNCHANGED <<session, daily, lookahead_days, ground_truth_threshold, algo_threshold,
                   config_file, now, stats, mp_stats, pred_in, prediction>>

\* (algo_threshold argument, algo_config.json)
BacktestThresholds == {<<None, None>>, <<Some(RInt(10)), None>>}
GroundTruthThresholds == {5}

InitWalk ==
    /\ InitIdle
    /\ stats = None
    /\ \E n \in 0..MaxLen : daily \in OneGapSeries(n)
    /\ lookahead_days \in 1..MaxLook
    /\ ground_truth_threshold \in GroundTruthThresholds
    /\ \E t \in BacktestThresholds : algo_threshold = t[1] /\ config_file = t[2]

Init ==
    /\ InitWalk
    /\ now = Timestamp(LastDate(daily), 1)

Next == StartBacktest \/ BacktestStep \/ FinishBacktest \/ Rerun \/ Tick

Spec == Init /\ [][Next]_vars

(***************************************************************************)
(* SpecCausal: a backtest, then a second one at the same wall-clock time   *)
(* on a series that differs only after one of the evaluated days.          *)
(***************************************************************************)
\* the caller runs the backtest on a series with other prices after day k
ReplayAltFuture(k, prices) ==
    /\ pc = "done"
    /\ prev = None
    /\ metrics # None
    /\ k \in min_history..(stop_idx - 1)
    /\ prev' = Some([daily |-> daily, results |-> results, metrics |-> metrics])
    /\ daily' = [j \in 1..Len(daily) |->
                    IF j <= k + 1 THEN daily[j]
                    ELSE [date |-> daily[j].date, price_cpl |-> prices[j]]]
    /\ pc' = "idle"
    /\ i' = 0
    /\ min_history' = 0
    /\ stop_idx' = 0
    /\ results' = <<>>
    /\ metrics' = None
    /\ UNCHANGED <<session, lookahead_days, ground_truth_threshold, algo_threshold,
                   config_file, now, stats, mp_stats, pred_in, prediction>>

InitCausal ==
    /\ InitIdle
    /\ stats = None
    /\ \E n \in 0..MaxLen : daily \in ConsecutiveSeries(n)
    /\ lookahead_days \in 1..MaxLook
    /\ ground_truth_threshold \in {5, 10}
    /\ \E t \in BacktestThresholds : algo_threshold = t[1] /\ config_file = t[2]
    /\ now \in {Timestamp(LastDate(daily) + a, 1) : a \in 0..MaxAge}

NextCausal ==
    \/ StartBacktest
    \/ BacktestStep
    \/ FinishBacktest
    \/ \E k \in min_history..(stop_idx - 1) :
           \E ps \in [(k + 2)..Len(daily) -> PriceLevels] : ReplayAltFuture(k, ps)

SpecCausal == InitCausal /\ [][NextCausal]_vars

(***************************************************************************)
(* SpecLen: the length check on flat series of every bounded length and    *)
(* lookahead.                                                              *)
(***************************************************************************)
FlatSeries(n) == [k \in 1..n |-> [date |-> k - 1, price_cpl |-> 150]]

InitLen ==
    /\ InitIdle
    /\ stats = None
    /\ \E n \in 0..MaxLongLen : daily = FlatSeries(n)
    /\ lookahead_days \in 0..MaxLongLook
    /\ ground_truth_threshold = 5
    /\ algo_threshold = None
    /\ config_file = None
    /\ now = Timestamp(LastDate(daily), 1)

NextLen == StartBacktest \/ BacktestStep \/ FinishBacktest

SpecLen == InitLen /\ [][NextLen]_vars

(***************************************************************************)
(* SpecConfig: load_config, save_config and the analyzer on every state of *)
(* algo_config.json.                                                       *)
(***************************************************************************)
\* load_config()
LoadConfig ==
    /\ loaded' = Some(load_config)
    /\ UNCHANGED <<raised, pending_config, opt, recommended, saved, physics,
                   forecaster, observations, procs>>
    /\ UNCHANGED <<daily, lookahead_days, ground_truth_threshold, algo_threshold,
                   config_file, now, pc, i, min_history, stop_idx, results, metrics,
                   stats, mp_stats, pred_in, prediction, prev>>

\* save_config(config)
SaveConfig(config) ==
    /\ config_file' = Some(json_dump(config))
    /\ saved' = Some(config)
    /\ loaded' = None
    /\ UNCHANGED <<raised, pending_config, opt, recommended, physics,
                   forecaster, observations, procs>>
    /\ UNCHANGED <<daily, lookahead_days, ground_truth_threshold, algo_threshold,
                   now, pc, i, min_history, stop_idx, results, metrics,
                   stats, mp_stats, pred_in, prediction, prev>>

\* save_config(load_config())
SaveLoaded == SaveConfig(load_config)

\* the config dicts handed to save_config: a threshold of the grid, a
\* threshold that is a string, no threshold
ConfigDicts ==
    {ConfigDict(thresholds[j]) : j \in 1..GridSize} \cup {Dict(TRUE, JString), EmptyDict}

\* the states of algo_config.json
ConfigFiles ==
    {None, Some(UnreadableFile), Some(GarbageFile), Some(json_dump(JList))}
        \cup {Some(json_dump(c)) : c \in ConfigDicts}

InitConfig ==
    /\ InitIdle
    /\ stats = None
    /\ \E n \in 0..MaxConfigLen : daily \in ConsecutiveSeries(n)
    /\ lookahead_days = DefaultLookahead
    /\ ground_truth_threshold = 5
    /\ algo_threshold = None
    /\ config_file \in ConfigFiles
    /\ now = Timestamp(LastDate(daily) + 1, 1)

NextConfig ==
    \/ LoadConfig
    \/ \E c \in ConfigDicts : SaveConfig(c)
    \/ SaveLoaded
    \/ AnalyzeCycles

SpecConfig == InitConfig /\ [][NextConfig]_vars

(***************************************************************************)
(* SpecPhysics: Strategy B on inputs on both sides of every threshold.     *)
(***************************************************************************)
\* the wholesale price, or None
TgpInputs == {None, Some(RInt(150))}

\* the retail median, or None: margins -1, 0, 1.9, 2, 4.9, 5, 20, 20.1, 25
MedianInputs ==
    {None} \cup {Some(Rat(m, 10)) :
                    m \in {1490, 1500, 1519, 1520, 1549, 1550, 1700, 1701, 1750}}

DurationInputs == {10, 35, 36}
TrendInputs == {RInt(-1), Rat(-1, 2), RInt(0)}
VolatilityInputs == {RInt(0), RInt(5), Rat(51, 10), RInt(6)}

InitPhysics ==
    /\ InitIdle
    /\ stats = None
    /\ daily = <<>>
    /\ lookahead_days = DefaultLookahead
    /\ ground_truth_threshold = 5
    /\ algo_threshold = None
    /\ config_file = None
    /\ now = Timestamp(0, 1)

\* one call for each behaviour: the function keeps nothing between calls
NextPhysics ==
    \E m \in IF physics = None THEN MedianInputs ELSE {}, t \in TgpInputs, d \in DurationInputs,
       tr \in TrendInputs, v \in VolatilityInputs :
        MPPredictStatus(m, t, d, tr, v)

SpecPhysics == InitPhysics /\ [][NextPhysics]_vars

(***************************************************************************)
(* SpecOptimize: a dashboard session on one daily series: run backtest,    *)
(* optimize, save, in any order.                                           *)
(***************************************************************************)
OptPriceLevels == {150, 156, 160}

\* n present days: 150 and 156 on the first two, any level on the next four,
\* one level on the later days; at most one stretch of missing days, before
\* the 4th day
OptSeries(n) ==
    {MkSeries([k \in 1..n |-> IF k = 1 THEN 150
                              ELSE IF k = 2 THEN 156
                              ELSE IF k <= MinHistoryFloor + 1 THEN h[k] ELSE c],
              [k \in 2..n |-> IF k = g THEN OptGap ELSE 1]) :
        h \in [3..(MinHistoryFloor + 1) -> OptPriceLevels],
        c \in {150, 160}, g \in {1, 4}}

OptConfigFiles ==
    {None, Some(json_dump(ConfigDict(RInt(9)))), Some(json_dump(JList)),
     Some(json_dump(ConfigDict(RInt(OffGridThreshold))))}

InitOptimize ==
    /\ InitIdle
    /\ stats = None
    /\ \E n \in (MaxOptLen - 1)..MaxOptLen : daily \in OptSeries(n)
    /\ lookahead_days = DefaultLookahead
    /\ ground_truth_threshold = 5
    /\ algo_threshold = None
    /\ config_file \in OptConfigFiles
    /\ now = Timestamp(LastDate(daily), 1)

NextOptimize ==
    \/ (opt = None /\ StartBacktest)
    \/ BacktestStep
    \/ FinishBacktest
    \/ OptimizeStart
    \/ OptimizeStep
    \/ OptimizeFinish
    \/ SavePending

SpecOptimize == InitOptimize /\ [][NextOptimize]_vars

(***************************************************************************)
(* The backtester: claims C1 (SpecCausal) and C2 (Spec).                   *)
(***************************************************************************)
\* the two series carry the same rows 1..k
AgreeUpTo(a, b, k) == Len(a) >= k /\ Len(b) >= k /\ SubSeq(a, 1, k) = SubSeq(b, 1, k)

\* C1: walk-forward causality.  Two backtests at the same wall-clock time, with
\* the same algo_threshold, on daily series that agree on days 0..i give day i
\* the same signal_hike, whatever the prices after day i.  (Record r is day
\* min_history + r - 1, whose history is rows 1..min_history + r.)
C1_WalkForwardCausal ==
    prev # None =>
        \A r \in 1..Len(results) :
            (r <= Len(prev[1].results)
             /\ AgreeUpTo(prev[1].daily, daily, min_history + r)) =>
                results[r].signal_hike = prev[1].results[r].signal_hike

\* C1 witness: both backtests are done, the second series differs from the
\* first on the day right after an evaluated day whose signal is 0.
C1_Witness ==
    /\ prev # None
    /\ pc = "done"
    /\ \E r \in 1..Len(results) :
          /\ AgreeUpTo(prev[1].daily, daily, min_history + r)
          /\ prev[1].daily[min_history + r + 1] # daily[min_history + r + 1]
          /\ results[r].signal_hike = 0

\* C2 as stated: two executions on identical inputs give identical records
\* and identical metrics, whenever each of them runs.
C2_RerunIdentical ==
    (prev # None /\ pc = "done") =>
        /\ prev[1].daily = daily
        /\ results = prev[1].results
        /\ metrics = prev[1].metrics

InUnit(r) == r.d > 0 /\ 0 <= r.n /\ r.n <= r.d

\* C9: for a result that is not None, tp + fp + tn + fn is the number of
\* records; accuracy = (tp+tn)/total; precision = tp/(tp+fp), recall =
\* tp/(tp+fn), each 0 on a zero denominator; F1 = 2*p*r/(p+r), 0 when p+r = 0;
\* nothing is divided by zero and every metric lies in [0, 1].
C9_MetricsWellDefined ==
    metrics # None =>
        LET m  == metrics[1]
            c  == m.confusion
            p  == IF c.tp + c.fp = 0 THEN RInt(0) ELSE Rat(c.tp, c.tp + c.fp)
            r  == IF c.tp + c.fn = 0 THEN RInt(0) ELSE Rat(c.tp, c.tp + c.fn)
        IN  /\ c.tp + c.fp + c.tn + c.fn = Len(results)
            /\ m.total_days = Len(results)
            /\ c.tp = Cardinality({k \in 1..Len(results) :
                          results[k].signal_hike = 1 /\ results[k].actual_hike = 1})
            /\ c.fn = Cardinality({k \in 1..Len(results) :
                          results[k].signal_hike = 0 /\ results[k].actual_hike = 1})
            /\ c.fp = Cardinality({k \in 1..Len(results) :
                          results[k].signal_hike = 1 /\ results[k].actual_hike = 0})
            /\ REq(m.accuracy, Rat(c.tp + c.tn, Len(results)))
            /\ REq(m.precision, p)
            /\ REq(m.recall, r)
            /\ IF p.n = 0 /\ r.n = 0 THEN REq(m.f1_score, RInt(0))
               ELSE REq(RMul(m.f1_score, RAdd(p, r)), RMul(RInt(2), RMul(p, r)))
            /\ InUnit(RNorm(m.accuracy))
            /\ InUnit(RNorm(m.precision))
            /\ InUnit(RNorm(m.recall))
            /\ InUnit(RNorm(m.f1_score))

\* C9 witness: a result with a missed hike and no true positive: precision and
\* F1 fall back to 0 beside a defined recall of 0.
C9_Witness ==
    /\ metrics # None
    /\ metrics[1].confusion.tp = 0
    /\ metrics[1].confusion.fp = 0
    /\ metrics[1].confusion.fn >= 1

\* C10: on a flat series with a positive ground_truth_threshold every record
\* has actual_hike = 0, so tp = fn = 0, recall = precision = F1 = 0, and the
\* accuracy is the fraction of records with signal_hike = 0.
C10_FlatSeriesAllNegative ==
    (metrics # None /\ IsFlat(daily) /\ ground_truth_threshold > 0) =>
        LET m == metrics[1]
        IN  /\ \A k \in 1..Len(results) : results[k].actual_hike = 0
            /\ m.confusion.tp = 0
            /\ m.confusion.fn = 0
            /\ REq(m.recall, RInt(0))
            /\ REq(m.precision, RInt(0))
            /\ REq(m.f1_score, RInt(0))
            /\ REq(m.accuracy,
                   Rat(Cardinality({k \in 1..Len(results) :
                                       results[k].signal_hike = 0}),
                       Len(results)))

\* C10 witness: a finished backtest of a flat series with several records.
C10_Witness ==
    /\ metrics # None
    /\ IsFlat(daily)
    /\ Len(results) >= 5

(***************************************************************************)
(* Strategy A: claims C3 and C4 (SpecStrategyA).                           *)
(***************************************************************************)
\* avg_relenting - days_elapsed of the last call, before any rounding
EstOf(call, p) == RSub(call.avg_relenting, RInt(p.days_elapsed))

IsWhole(r) == r.n % r.d = 0

Statuses == {"HIKE", "DROPPING", "BOTTOM", "OVERDUE"}

\* C3 as stated: the status is decided by the reported pair (days_elapsed,
\* days_remaining): HIKE when days_elapsed < 3, else DROPPING iff
\* days_remaining > 3, BOTTOM iff 0 < days_remaining <= 3, OVERDUE iff
\* days_remaining <= 0.
C3_StatusFromReportedPair ==
    prediction # None =>
        LET p == prediction[1]
        IN  /\ p.status \in Statuses
            /\ p.days_elapsed < 3 => p.status = "HIKE"
            /\ p.days_elapsed >= 3 =>
                  /\ (p.status = "DROPPING" <=> p.days_remaining > 3)
                  /\ (p.status = "BOTTOM" <=>
                         (0 < p.days_remaining /\ p.days_remaining <= 3))
                  /\ (p.status = "OVERDUE" <=> p.days_remaining <= 0)

\* C3 amended: exactly one of the four statuses is returned; HIKE whenever
\* days_elapsed < 3; otherwise the status is decided by the unrounded estimate
\* est = avg_relenting - days_elapsed: DROPPING iff est > 3, BOTTOM iff
\* 0 < est <= 3, OVERDUE iff est <= 0.  The reported days_remaining decides
\* the same way whenever avg_relenting is a whole number.
C3_StatusFromEstimate ==
    prediction # None =>
        LET p   == prediction[1]
            est == EstOf(pred_in[1], p)
        IN  /\ p.status \in Statuses
            /\ p.days_elapsed < 3 => p.status = "HIKE"
            /\ p.days_elapsed >= 3 =>
                  /\ (p.status = "DROPPING" <=> est.n > 3 * est.d)
                  /\ (p.status = "BOTTOM" <=> (0 < est.n /\ est.n <= 3 * est.d))
                  /\ (p.status = "OVERDUE" <=> est.n <= 0)
            /\ (p.days_elapsed >= 3 /\ IsWhole(pred_in[1].avg_relenting)) =>
                  /\ (p.status = "DROPPING" <=> p.days_remaining > 3)
                  /\ (p.status = "BOTTOM" <=>
                         (0 < p.days_remaining /\ p.days_remaining <= 3))
                  /\ (p.status = "OVERDUE" <=> p.days_remaining <= 0)

\* C3 witness: a call with days_elapsed >= 3 whose estimate lies strictly
\* between 3 and 4: the status is DROPPING while days_remaining reads 3.
C3_Witness ==
    /\ prediction # None
    /\ prediction[1].days_elapsed >= 3
    /\ prediction[1].status = "DROPPING"
    /\ prediction[1].days_remaining = 3

\* C4 as stated: days_remaining equals max(0, avg_relenting - days_elapsed),
\* also for a non-integer avg_relenting.
C4_DaysRemainingIsMax ==
    prediction # None =>
        LET p   == prediction[1]
            est == EstOf(pred_in[1], p)
        IN  /\ p.days_remaining >= 0
            /\ IF est.n > 0 THEN REq(RInt(p.days_remaining), est)
               ELSE p.days_remaining = 0

\* C4 amended: days_remaining is the whole part of
\* max(0, avg_relenting - days_elapsed): it is never negative, never above
\* that maximum and less than one below it; it equals the maximum whenever
\* avg_relenting is a whole number.
C4_DaysRemainingIsWholePart ==
    prediction # None =>
        LET p   == prediction[1]
            est == EstOf(pred_in[1], p)
            r   == p.days_remaining
        IN  /\ r >= 0
            /\ est.n <= 0 => r = 0
            /\ est.n > 0 => (r * est.d <= est.n /\ est.n < (r + 1) * est.d)
            /\ (est.n > 0 /\ IsWhole(pred_in[1].avg_relenting)) =>
                  REq(RInt(r), est)

\* C4 witness: a call whose positive estimate is not a whole number.
C4_Witness ==
    /\ prediction # None
    /\ LET est == EstOf(pred_in[1], prediction[1])
       IN  est.n > 0 /\ ~IsWhole(est) /\ prediction[1].days_remaining >= 1

(***************************************************************************)
(* The analyzer: claims C5, C6 and C7 (SpecAnalyze).                       *)
(***************************************************************************)
\* the threshold in force for the analysis of the state's series
EffectiveThreshold ==
    IF algo_threshold # None THEN algo_threshold[1]
    ELSE IF config_file # None THEN ParseFloat(config_file[1].hike_threshold.text)
    ELSE RInt(8)

\* the rows of the daily series that are hike events under threshold thr
HikeRows(thr) ==
    {k \in 2..Len(daily) :
        (daily[k].price_cpl - daily[k - 1].price_cpl) * thr.d > thr.n}

RECURSIVE SetSum(_, _)
SetSum(f, S) ==
    IF S = {} THEN 0
    ELSE LET x == CHOOSE y \in S : TRUE IN f[x] + SetSum(f, S \ {x})

FirstHikeRow(H) == CHOOSE k \in H : \A j \in H : k <= j
LastHikeRow(H) == CHOOSE k \in H : \A j \in H : k >= j
NextHikeRow(H, h) == CHOOSE k \in H : k > h /\ \A j \in H : j > h => k <= j

\* mean of the day gaps between consecutive hike dates
MeanGap(H) ==
    Rat(daily[LastHikeRow(H)].date - daily[FirstHikeRow(H)].date, Cardinality(H) - 1)

\* days from hike row h to the first lowest-priced day before the next hike
DaysToLow(H, h) ==
    LET w   == h..(NextHikeRow(H, h) - 1)
        low == CHOOSE k \in w :
                   /\ \A j \in w : daily[k].price_cpl <= daily[j].price_cpl
                   /\ \A j \in w : daily[j].price_cpl = daily[k].price_cpl => k <= j
    IN  daily[low].date - daily[h].date

MeanDaysToLow(H) ==
    LET starts == H \ {LastHikeRow(H)}
    IN  Rat(SetSum([h \in starts |-> DaysToLow(H, h)], starts), Cardinality(H) - 1)

C6_SingleHikeDefaults ==
    LET H == HikeRows(EffectiveThreshold)
    IN  (stats # None /\ Cardinality(H) = 1) =>
            /\ stats[1].avg_len = RInt(35)
            /\ stats[1].avg_relent = RInt(28)
            /\ stats[1].last_hike = Midnight(daily[LastHikeRow(H)].date)

GridMetrics ==
    [j \in 1..GridSize |->
        run_backtest(daily, DefaultLookahead, ground_truth_threshold,
                     Some(thresholds[j]), now)]

\* the place of the threshold 8.0 in the grid
DefaultAt == CHOOSE j \in 1..GridSize : REq(thresholds[j], RInt(8))

\* the optimizer has returned for a series long enough to be backtested, with
\* no config file before or after: the persisted threshold is the default
OptimizedOnDefault ==
    /\ recommended # None
    /\ config_file = None
    /\ saved = None
    /\ GridMetrics[1] # None

KeepsDefault ==
    /\ recommended[1].config.isdict
    /\ recommended[1].config.has_threshold
    /\ recommended[1].config.hike_threshold.isnum
    /\ REq(recommended[1].config.hike_threshold.val, RInt(8))
    /\ recommended[1].msg = "Current threshold is optimal"

\* C11 as stated: when 8.0 attains the maximum F1 over the grid and the
\* persisted threshold is the default, optimize_algorithm returns
\* {hike_threshold: 8.0} and the 'current threshold is optimal' message.
C11_DefaultKeptWhenF1Max ==
    OptimizedOnDefault =>
        LET f1 == [j \in 1..GridSize |-> GridMetrics[j][1].f1_score]
        IN  (\A j \in 1..GridSize : RLeq(f1[j], f1[DefaultAt])) => KeepsDefault

\* C11 amended: the optimizer compares scores, the score of a threshold being
\* its F1, or its accuracy where its F1 is exactly 0.  With the default
\* persisted, it returns {hike_threshold: 8.0} and the 'optimal' message exactly
\* when no threshold of the grid scores more than 0.01 above 8.0; otherwise it
\* returns the first threshold of the grid with the highest score and the
\* 'found' message.
C11_DefaultKeptWhenScoreMax ==
    OptimizedOnDefault =>
        LET sc == [j \in 1..GridSize |->
                      LET m == GridMetrics[j][1]
                      IN  IF m.f1_score.n = 0 THEN m.accuracy ELSE m.f1_score]
            top == CHOOSE j \in 1..GridSize :
                       /\ \A l \in 1..GridSize : RLeq(sc[l], sc[j])
                       /\ \A l \in 1..(j - 1) : RLess(sc[l], sc[j])
        IN  IF \A j \in 1..GridSize :
                   RLeq(RSub(sc[j], sc[DefaultAt]), Rat(1, 100))
            THEN KeepsDefault
            ELSE /\ REq(recommended[1].config.hike_threshold.val, thresholds[top])
                 /\ recommended[1].msg = "Found optimized threshold"

\* C11 witness: the optimizer kept the default on a series where 8.0 has a
\* positive F1 and some threshold of the grid scores lower.
C11_Witness ==
    /\ OptimizedOnDefault
    /\ KeepsDefault
    /\ GridMetrics[DefaultAt][1].f1_score.n > 0
    /\ \E j \in 1..GridSize :
           RLess(GridMetrics[j][1].f1_score, GridMetrics[DefaultAt][1].f1_score)

\* C12: no step of a dashboard session changes algo_config.json except the
\* save button, which writes the pending recommended config; in particular
\* no step of optimize_algorithm changes it.
C12_ConfigChangesOnlyOnSave ==
    [][/\ (opt # None \/ opt' # None \/ recommended' # recommended) =>
              config_file' = config_file
       /\ config_file' # config_file =>
              /\ pending_config # None
              /\ opt = None
              /\ config_file' = Some(json_dump(pending_config[1]))
              /\ saved' = pending_config]_vars

\* C12 witness: after an optimize call that found a better threshold the save
\* button has written it: the file holds a threshold other than the default.
C12_Witness ==
    /\ recommended # None
    /\ recommended[1].msg = "Found optimized threshold"
    /\ saved = Some(recommended[1].config)
    /\ config_file = Some(json_dump(recommended[1].config))
    /\ ~REq(load_config.hike_threshold.val, RInt(8))

(***************************************************************************)
(* The configuration: claims C13 and C14 (SpecConfig).                     *)
(***************************************************************************)
\* two JSON values are the same value
SameJson(a, b) ==
    /\ a.isdict = b.isdict
    /\ a.has_threshold = b.has_threshold
    /\ a.hike_threshold.isnum = b.hike_threshold.isnum
    /\ REq(a.hike_threshold.val, b.hike_threshold.val)

FileInvalid ==
    \/ config_file = None
    \/ config_file[1].state # "json"
    \/ ~config_file[1].isdict
    \/ ~config_file[1].has_threshold
    \/ ~config_file[1].hike_threshold.isnum

\* C14 as stated: with no config file, or an unreadable or invalid one,
\* load_config returns {hike_threshold: 8.0} and the analyzer proceeds, without
\* raising, with the threshold 8.0.
C14_InvalidConfigFallsBack ==
    [][FileInvalid =>
          /\ (loaded' # loaded /\ loaded' # None) => loaded'[1] = default_config
          /\ (stats' # stats \/ raised' # raised) =>
                 /\ raised' = ""
                 /\ stats' = Some(analyze_cycles(daily, Some(RInt(8)), now))]_vars

(***************************************************************************)
(* Strategy B: claims C15, C16 and C17 (SpecPhysics).                      *)
(***************************************************************************)
\* C15 as stated: the value estimate_hike_probability returns and the
\* hike_probability field of the predict_status result both lie in [0, 1].
C15_ProbabilityInUnit ==
    physics # None =>
        /\ InUnit(RNorm(physics[1].prob))
        /\ InUnit(RNorm(physics[1].result.hike_probability))

\* the probability the status of the last call is decided on, from the
\* arguments of the call
ProbOf(call) ==
    LET raw == (IF call.margin.n < 2 * call.margin.d THEN 5 ELSE 0)
               + (IF call.margin.n < 0 THEN 3 ELSE 0)
               + (IF call.duration > 35 THEN 1 ELSE 0)
               - (IF 2 * call.tgp_trend_val.n < -call.tgp_trend_val.d THEN 4 ELSE 0)
    IN  Rat(IF raw < 0 THEN 0 ELSE IF raw > 10 THEN 10 ELSE raw, 10)

StatusesB ==
    {"HIKE_STARTED", "HIKE_IMMINENT", "WARNING", "DROPPING", "BOTTOM", "STABLE"}

\* C16: the status is one of six, decided in priority order: volatility > 5.0
\* gives HIKE_STARTED whatever the probability and the margin; else
\* probability > 0.7 gives HIKE_IMMINENT; else probability > 0.4 gives WARNING;
\* else margin > 20.0 gives DROPPING; else margin < 5.0 gives BOTTOM; else
\* STABLE.
C16_StatusPriority ==
    physics # None =>
        LET c  == physics[1]
            st == c.result.status
            p  == ProbOf(c)
            v  == c.volatility
            m  == c.margin
            vol_high == v.n > 5 * v.d
        IN  /\ st \in StatusesB
            /\ REq(c.prob, p)
            /\ st = "HIKE_STARTED" <=> vol_high
            /\ st = "HIKE_IMMINENT" <=> (~vol_high /\ 10 * p.n > 7 * p.d)
            /\ st = "WARNING" <=>
                   (~vol_high /\ 10 * p.n <= 7 * p.d /\ 10 * p.n > 4 * p.d)
            /\ st = "DROPPING" <=>
                   (~vol_high /\ 10 * p.n <= 4 * p.d /\ m.n > 20 * m.d)
            /\ st = "BOTTOM" <=>
                   (~vol_high /\ 10 * p.n <= 4 * p.d /\ m.n <= 20 * m.d
                    /\ m.n < 5 * m.d)
            /\ st = "STABLE" <=>
                   (~vol_high /\ 10 * p.n <= 4 * p.d /\ m.n <= 20 * m.d
                    /\ m.n >= 5 * m.d)

\* C16 witness: a call with volatility above 5.0 and a probability above 0.7.
C16_Witness ==
    /\ physics # None
    /\ physics[1].volatility.n > 5 * physics[1].volatility.d
    /\ 10 * physics[1].prob.n > 7 * physics[1].prob.d
    /\ physics[1].result.status = "HIKE_STARTED"

\* C17: with margin > 20.0 and volatility <= 5.0 the status is DROPPING for
\* every duration and every wholesale trend: with margin >= 2.0 the
\* probability never exceeds 0.4.
C17_WideMarginDropping ==
    physics # None =>
        LET c == physics[1]
        IN  /\ (c.margin.n > 20 * c.margin.d /\ c.volatility.n <= 5 * c.volatility.d)
                   => c.result.status = "DROPPING"
            /\ c.margin.n >= 2 * c.margin.d => 10 * c.prob.n <= 4 * c.prob.d

\* C17 witness: margin 25.0 after more than 35 days, volatility exactly 5.0.
C17_Witness ==
    /\ physics # None
    /\ REq(physics[1].margin, RInt(25))
    /\ physics[1].duration > 35
    /\ REq(physics[1].volatility, RInt(5))
    /\ physics[1].result.status = "DROPPING"

(***************************************************************************)
(* Hike detection: claim C18 (SpecAnalyze).                                *)
(***************************************************************************)
\* the dates of a list, as a set
DateSet(hd) == {hd[k] : k \in 1..Len(hd)}

HighestOn(W) ==
    CHOOSE p \in {daily[k].price_cpl : k \in W} : \A k \in W : daily[k].price_cpl <= p

\* C19: the record of day i (row i + 1) carries actual_hike = 1 exactly when
\* the highest price on the lookahead_days days that follow, rows i + 2 to
\* i + 1 + lookahead_days, all of them inside the series, exceeds the price of
\* day i by strictly more than ground_truth_threshold.
C19_GroundTruthWindow ==
    \A r \in 1..Len(results) :
        LET row == min_history + r
            W   == (row + 1)..(row + lookahead_days)
        IN  /\ results[r].date = daily[row].date
            /\ results[r].price = daily[row].price_cpl
            /\ Cardinality(W) = lookahead_days
            /\ W \subseteq 1..Len(daily)
            /\ row \notin W
            /\ results[r].actual_hike \in {0, 1}
            /\ results[r].actual_hike = 1 <=>
                   HighestOn(W) - daily[row].price_cpl > ground_truth_threshold

\* C19 witness: a finished backtest with lookahead 2 in which one day is
\* followed, on the last day of its window, by a rise equal to the ground truth
\* threshold: no hike.
C19_Witness ==
    /\ pc = "done"
    /\ lookahead_days = 2
    /\ \E r \in 1..Len(results) :
           /\ results[r].actual_hike = 0
           /\ daily[min_history + r + 1].price_cpl = results[r].price
           /\ daily[min_history + r + 2].price_cpl - results[r].price
                  = ground_truth_threshold

(***************************************************************************)
(* The backtester's loop: claim C20 (SpecLen).                             *)
(***************************************************************************)
\* C20: once the length check has passed, the loop runs over the indices
\* min_history .. len - lookahead_days - 1 with min_history = max(5, len \div 5)
\* as first computed (the branch that lowers it is not taken), in increasing
\* order, one record for each: len - lookahead_days - min_history >= 1 records
\* at the end.
C20_LoopIndices ==
    LET n  == Len(daily)
        mh == IF n >= 25 THEN n \div 5 ELSE 5
    IN  /\ pc = "loop" =>
               /\ min_history = mh
               /\ stop_idx = n - lookahead_days
               /\ min_history < stop_idx
               /\ min_history <= i /\ i <= stop_idx
               /\ Len(results) = i - min_history
        /\ (pc = "done" /\ metrics # None) =>
               /\ Len(results) = n - lookahead_days - mh
               /\ Len(results) >= 1
        /\ pc \in {"loop", "done"} =>
               \A r \in 1..Len(results) : results[r].date = daily[mh + r].date

\* C20 witness: a finished backtest of 27 days with lookahead 0: min_history
\* is 5 and the 22 days from index 5 to the last one have a record each.
C20_Witness ==
    /\ pc = "done"
    /\ Len(daily) = 27
    /\ lookahead_days = 0
    /\ Len(results) = 22
    /\ results[22].date = daily[27].date

(***************************************************************************)
(* The optimizer's recommendation: claim C21 (SpecOptimize).               *)
(***************************************************************************)
\* the score of each threshold of the grid, None where its backtest returned
\* no metrics
GridScores ==
    [j \in 1..GridSize |->
        LET m == run_backtest(daily, DefaultLookahead, ground_truth_threshold,
                              Some(thresholds[j]), now)
        IN  IF m = None THEN None
            ELSE Some(IF m[1].f1_score.n = 0 THEN m[1].accuracy
                      ELSE m[1].f1_score)]

\* the thresholds of the grid whose backtest returned metrics
ScoredIn(sc) == {j \in 1..GridSize : sc[j] # None}

Scored == ScoredIn(GridScores)

\* the persisted threshold, 8.0 without a file
Persisted == config_get(load_config).val

\* the candidates within 0.1 of the persisted threshold
BaselinesIn(sc) ==
    {j \in ScoredIn(sc) :
        /\ 10 * (thresholds[j].n * Persisted.d - Persisted.n * thresholds[j].d)
               < thresholds[j].d * Persisted.d
        /\ 10 * (Persisted.n * thresholds[j].d - thresholds[j].n * Persisted.d)
               < thresholds[j].d * Persisted.d}

Baselines == BaselinesIn(GridScores)

BaselineScore(sc) ==
    IF BaselinesIn(sc) = {} THEN RInt(0)
    ELSE sc[CHOOSE j \in BaselinesIn(sc) : TRUE][1]

\* the first threshold of the grid with the highest score
BestOfGrid(sc) ==
    CHOOSE j \in ScoredIn(sc) :
        /\ \A l \in ScoredIn(sc) : RLeq(sc[l][1], sc[j][1])
        /\ \A l \in ScoredIn(sc) : l < j => RLess(sc[l][1], sc[j][1])

\* the step in which optimize_algorithm returns
OptimizeReturns == opt # None /\ opt' = None /\ recommended' # None

C21_WitnessNoData ==
    /\ recommended # None
    /\ Scored = {}
    /\ config_file = Some(json_dump(ConfigDict(RInt(9))))
    /\ recommended[1].msg = "Current threshold is optimal"

C21_WitnessOffGrid ==
    /\ recommended # None
    /\ Scored # {}
    /\ config_file = Some(json_dump(ConfigDict(RInt(OffGridThreshold))))
    /\ Baselines = {}
    /\ recommended[1].msg = "Found optimized threshold"

(***************************************************************************)
(* Strategy B's probability: claim C22 (SpecPhysics).                      *)
(***************************************************************************)
\* the margin of a call in tenths of a cent: retail median - wholesale price,
\* 0 when either is missing
MarginTenths(call) ==
    IF call.current_median = None \/ call.tgp = None THEN 0
    ELSE LET a == call.current_median[1]
             b == call.tgp[1]
         IN  (10 * a.n * b.d - 10 * b.n * a.d) \div (a.d * b.d)

\* the accumulated probability of a call in hundredths, before the clamp
Accumulated(call) ==
    (IF MarginTenths(call) < 20 THEN 50 ELSE 0)
    + (IF MarginTenths(call) < 0 THEN 30 ELSE 0)
    + (IF call.duration > 35 THEN 10 ELSE 0)
    - (IF 2 * call.tgp_trend_val.n < -call.tgp_trend_val.d THEN 40 ELSE 0)

\* C22: the probability Strategy B works with is the clamp to [0,1] of
\* (0.50 if margin < 2.0) + (0.30 if margin < 0.0) + (0.10 if duration > 35)
\* - (0.40 if wholesale trend < -0.5); margin -1.0, duration 10, trend 0.0
\* give 0.8 and, with volatility <= 5.0, the status HIKE_IMMINENT.
C22_ProbabilityAccumulates ==
    physics # None =>
        LET call == physics[1]
            acc  == Accumulated(call)
            clamped == IF acc < 0 THEN 0 ELSE IF acc > 100 THEN 100 ELSE acc
        IN  /\ call.prob.n * 100 = clamped * call.prob.d
            /\ (MarginTenths(call) = -10 /\ call.duration = 10
                    /\ call.tgp_trend_val.n = 0) =>
                   /\ call.prob.n * 10 = 8 * call.prob.d
                   /\ RLeq(call.volatility, RInt(5)) =>
                          call.result.status = "HIKE_IMMINENT"

\* C22 witness: the call of the scenario, at the volatility 5.0.
C22_Witness ==
    /\ physics # None
    /\ MarginTenths(physics[1]) = -10
    /\ physics[1].duration = 10
    /\ physics[1].tgp_trend_val = RInt(0)
    /\ physics[1].volatility = RInt(5)
    /\ physics[1].result.status = "HIKE_IMMINENT"

(***************************************************************************)
(* neural_forecast.NeuralForecaster                                        *)
(***************************************************************************)
\* The floats of the forecaster are whole numbers of 1/10000 cent, and each
\* operation rounds its result to the nearest of them.
Cents(c) == c * 10000
Tenths(t) == t * 1000

\* a / b to the nearest whole number, b > 0
RoundDiv(a, b) == (2 * a + b) \div (2 * b)

\* round(sim_price, 1), in tenths of a cent
RoundPrice(price) == RoundDiv(price, 1000)

\* __init__, lines 14-25
NeuralForecaster(tgp, current_price, days_since_hike, status) ==
    [tgp |-> tgp, current_price |-> current_price,
     days_since_hike |-> days_since_hike, status |-> status]

\* a variant of the ramp that does not look at the price
RampIgnoresPrice(self, sim_days, sim_price) ==
    IF sim_days > 25 THEN Rat(sim_days - 25, 10) ELSE RInt(0)

\* lines 49-51: the overdue ramp
RampProbability(self, sim_days, sim_price) ==
    IF sim_days > 25 /\ sim_price < self.tgp + Cents(4)
    THEN Rat(sim_days - 25, 10) ELSE RInt(0)

\* line 54: the status says a hike is underway and i < 3
Forced(self, day) ==
    self.status \in {"HIKE_STARTED", "HIKE_IMMINENT"} /\ day < 3

\* lines 49-55
HikeProbability(self, day, sim_days, sim_price) ==
    IF Forced(self, day) THEN RInt(1)
    ELSE RampProbability(self, sim_days, sim_price)

\* the branch of lines 58-85 a day takes
Rule(self, hike_prob, sim_days) ==
    IF RLess(Rat(8, 10), hike_prob) THEN "hike"
    ELSE IF sim_days < HIKE_DURATION THEN "stabilize"
    ELSE "decay"

Target(self) == self.tgp + Cents(HIKE_PEAK_OFFSET)

\* a variant that rises by half the peak offset whatever the distance left
HikeFixedRise(self, sim_price) == sim_price + Cents(HIKE_PEAK_OFFSET) \div 2

\* lines 60-62
HikeStep(self, sim_price) == sim_price + RoundDiv(Target(self) - sim_price, 2)

\* lines 70-71
StabilizeStep(self, sim_price) == sim_price + RoundDiv(Target(self) - sim_price, 5)

\* a variant without the hard floor of line 85
DecayNoFloor(self, sim_price) ==
    LET excess == Max(0, sim_price - (self.tgp + Cents(BOTTOM_OFFSET)))
    IN  sim_price - (Tenths(15) + RoundDiv(excess, 50))

\* lines 77-85
DecayStep(self, sim_price) ==
    LET excess == Max(0, sim_price - (self.tgp + Cents(BOTTOM_OFFSET)))
        drop   == Tenths(15) + RoundDiv(excess, 50)
    IN  Max(sim_price - drop, self.tgp + Tenths(5))

\* lines 31-38: the object and the locals of predict_next_14_days before the
\* loop; start_date is None or a day, and None stands for the clock
ForecastStart(tgp, current_price, days_since_hike, status, start_date) ==
    /\ forecaster = None
    /\ forecaster' = Some(
           [self |-> NeuralForecaster(tgp, current_price, days_since_hike, status),
            base_date |-> IF start_date = None THEN now.day ELSE start_date[1],
            i |-> 0,
            sim_price |-> current_price,
            sim_days |-> days_since_hike,
            hike_prob |-> RInt(0),
            rule |-> "",
            forecast_prices |-> <<>>,
            forecast_dates |-> <<>>,
            returned |-> None])
    /\ UNCHANGED <<raised, pending_config, opt, recommended, loaded, saved, physics,
                   observations, procs>>
    /\ UNCHANGED <<daily, lookahead_days, ground_truth_threshold, algo_threshold,
                   config_file, now, pc, i, min_history, stop_idx, results, metrics,
                   stats, mp_stats, pred_in, prediction, prev>>

\* a variant whose hike step never restarts the cycle
ForecastDayNoReset ==
    /\ forecaster # None
    /\ forecaster[1].i < HorizonDays
    /\ LET f    == forecaster[1]
           day  == f.i + 1
           days == f.sim_days + 1
           prob == HikeProbability(f.self, day, days, f.sim_price)
           rule == Rule(f.self, prob, days)
           price == IF rule = "hike" THEN HikeStep(f.self, f.sim_price)
                    ELSE IF rule = "stabilize" THEN StabilizeStep(f.self, f.sim_price)
                    ELSE DecayStep(f.self, f.sim_price)
       IN  forecaster' = Some(
               [f EXCEPT !.i = day,
                         !.sim_price = price,
                         !.sim_days = days,
                         !.hike_prob = prob,
                         !.rule = rule,
                         !.forecast_prices = Append(@, RoundPrice(price)),
                         !.forecast_dates = Append(@, f.base_date + day)])
    /\ UNCHANGED <<raised, pending_config, opt, recommended, loaded, saved, physics,
                   observations, procs>>
    /\ UNCHANGED <<daily, lookahead_days, ground_truth_threshold, algo_threshold,
                   config_file, now, pc, i, min_history, stop_idx, results, metrics,
                   stats, mp_stats, pred_in, prediction, prev>>

\* lines 40-88: one pass of the loop
ForecastDay ==
    /\ forecaster # None
    /\ forecaster[1].i < HorizonDays
    /\ LET f    == forecaster[1]
           day  == f.i + 1
           days == f.sim_days + 1
           prob == HikeProbability(f.self, day, days, f.sim_price)
           rule == Rule(f.self, prob, days)
           price == IF rule = "hike" THEN HikeStep(f.self, f.sim_price)
                    ELSE IF rule = "stabilize" THEN StabilizeStep(f.self, f.sim_price)
                    ELSE DecayStep(f.self, f.sim_price)
       IN  forecaster' = Some(
               [f EXCEPT !.i = day,
                         !.sim_price = price,
                         !.sim_days = IF rule = "hike"
                                         /\ price > Target(f.self) - Cents(2)
                                      THEN 0 ELSE days,
                         !.hike_prob = prob,
                         !.rule = rule,
                         !.forecast_prices = Append(@, RoundPrice(price)),
                         !.forecast_dates = Append(@, f.base_date + day)])
    /\ UNCHANGED <<raised, pending_config, opt, recommended, loaded, saved, physics,
                   observations, procs>>
    /\ UNCHANGED <<daily, lookahead_days, ground_truth_threshold, algo_threshold,
                   config_file, now, pc, i, min_history, stop_idx, results, metrics,
                   stats, mp_stats, pred_in, prediction, prev>>

\* line 90
ForecastReturn ==
    /\ forecaster # None
    /\ forecaster[1].i = HorizonDays
    /\ forecaster[1].returned = None
    /\ forecaster' = Some([forecaster[1] EXCEPT !.returned =
           Some([dates |-> forecaster[1].forecast_dates,
                 prices |-> forecaster[1].forecast_prices])])
    /\ UNCHANGED <<raised, pending_config, opt, recommended, loaded, saved, physics,
                   observations, procs>>
    /\ UNCHANGED <<daily, lookahead_days, ground_truth_threshold, algo_threshold,
                   config_file, now, pc, i, min_history, stop_idx, results, metrics,
                   stats, mp_stats, pred_in, prediction, prev>>

(***************************************************************************)
(* SpecForecast: one 14-day trace for each forecaster of the input sets.   *)
(***************************************************************************)
\* the wholesale reference: 150.0 and 150.03
ForecastTgps == {Cents(150), Cents(150) + 300}

\* the starting price as an offset from the wholesale reference, in tenths
PriceOffsets == {-200, -161, -160, 0, 5, 39, 40, 100, 199, 200, 201, 219, 220,
                 240, 280, 281, 300}

DaysSinceInputs == {0, 2, 3, 4, 20, 24, 25, 32, 33, 34}
StatusInputs == {"HIKE_STARTED", "HIKE_IMMINENT", "WARNING", "STABLE"}
StartDateInputs == {None, Some(100)}

InitForecast ==
    /\ InitIdle
    /\ stats = None
    /\ daily = <<>>
    /\ lookahead_days = DefaultLookahead
    /\ ground_truth_threshold = 5
    /\ algo_threshold = None
    /\ config_file = None
    /\ now = Timestamp(0, 1)

NextForecast ==
    \/ \E t \in IF forecaster = None THEN ForecastTgps ELSE {},
          o \in PriceOffsets, d \in DaysSinceInputs, st \in StatusInputs,
          sd \in StartDateInputs :
           ForecastStart(t, t + Tenths(o), d, st, sd)
    \/ ForecastDay
    \/ ForecastReturn

SpecForecast == InitForecast /\ [][NextForecast]_vars

(***************************************************************************)
(* The forecaster: claims C23, C24, C25, C28 and C29 (SpecForecast).       *)
(***************************************************************************)
\* a step that simulates one day
SimulatesDay ==
    /\ forecaster # None
    /\ forecaster' # None
    /\ forecaster'[1].i = forecaster[1].i + 1

HikeUnderway == forecaster[1].self.status \in {"HIKE_STARTED", "HIKE_IMMINENT"}

\* C23: with the status HIKE_STARTED or HIKE_IMMINENT, hike_probability is
\* forced to 1.0 on days 1, 2 and 3 of the trace, so that the hike step is
\* applied on all three, and on no later day: from day 4 on it is the value
\* of the overdue ramp.
C23_ForcedFirstThreeDays ==
    [][(SimulatesDay /\ HikeUnderway) =>
          LET f == forecaster[1]
              g == forecaster'[1]
          IN  IF g.i <= 3
              THEN g.hike_prob = RInt(1) /\ g.rule = "hike"
              ELSE g.hike_prob = RampProbability(f.self, f.sim_days + 1,
                                                 f.sim_price)]_vars

\* |a| for an integer
Abs(a) == IF a < 0 THEN -a ELSE a

\* the hike-peak target of the state's forecaster: tgp + 24.0
Peak == forecaster[1].self.tgp + 240000

\* the price moved the fraction 1/parts of its distance to the peak, to the
\* rounding of one operation
MovedToPeak(old, new, parts) == Abs(parts * (new - old) - (Peak - old)) <= parts \div 2

\* the price fell by 1.5 + 0.02 * max(0, old - (tgp + 2.0)), and not below
\* tgp + 0.5
Decayed(old, new) ==
    LET bottom == forecaster[1].self.tgp + 20000
        excess == IF old > bottom THEN old - bottom ELSE 0
        floor  == forecaster[1].self.tgp + 5000
    IN  \E drop \in {15000 + excess \div 50, 15000 + excess \div 50 + 1} :
            /\ Abs(50 * (drop - 15000) - excess) <= 25
            /\ new = IF old - drop < floor THEN floor ELSE old - drop

\* the 14-day trace so far: one entry for each simulated day, dated on the
\* consecutive days after the start date; the loop ends after 14
TraceDated(g) ==
    /\ g.i <= 14
    /\ Len(g.forecast_dates) = g.i
    /\ Len(g.forecast_prices) = g.i
    /\ \A k \in 1..g.i : g.forecast_dates[k] = g.base_date + k
    /\ g.returned # None =>
           /\ Len(g.returned[1].dates) = 14
           /\ Len(g.returned[1].prices) = 14
           /\ g.returned[1].dates = g.forecast_dates

\* the day rule, with the cycle restarting on a hike step exactly when
\* Restarts(new price) holds
DayRule(Restarts(_)) ==
    (forecaster' # None /\ forecaster # None) =>
        LET f == forecaster[1]
            g == forecaster'[1]
            days == f.sim_days + 1
        IN  /\ TraceDated(g)
            /\ g.i = f.i + 1 =>
                   IF 10 * g.hike_prob.n > 8 * g.hike_prob.d
                   THEN /\ MovedToPeak(f.sim_price, g.sim_price, 2)
                        /\ g.sim_days = IF Restarts(g.sim_price) THEN 0 ELSE days
                   ELSE IF days < 5
                   THEN /\ MovedToPeak(f.sim_price, g.sim_price, 5)
                        /\ g.sim_days = days
                   ELSE /\ Decayed(f.sim_price, g.sim_price)
                        /\ g.sim_days = days

WithinTwoOfPeak(price) == Peak - 20000 < price /\ price <= Peak + 20000
AbovePeakLessTwo(price) == price > Peak - 20000

\* C24 as stated: each simulated day applies exactly one of the three rules
\* in priority order, the hike step resetting sim_days to 0 iff the new price
\* is within 2.0 of the peak tgp + 24.0, and the trace has exactly 14 entries
\* dated on the consecutive days after the start date.
C24_DayRuleWithinTwo == [][DayRule(WithinTwoOfPeak)]_vars

\* C24 amended: the same, the hike step resetting sim_days to 0 iff the new
\* price is greater than the peak less 2.0, however far above the peak it is.
C24_DayRule == [][DayRule(AbovePeakLessTwo)]_vars

\* C24 witness: a returned trace of 14 entries that started 20 days into the
\* cycle with a hike underway and a price above the peak: the hike step of day
\* 1 left the price more than 2.0 above the peak and restarted the cycle, the
\* days after the hike steps stabilized, the last one decayed.
C24_Witness ==
    /\ forecaster # None
    /\ forecaster[1].returned # None
    /\ Len(forecaster[1].returned[1].prices) = 14
    /\ forecaster[1].self.days_since_hike = 20
    /\ forecaster[1].returned[1].prices[1] * 1000 > Peak + 20000
    /\ forecaster[1].sim_days < 14
    /\ forecaster[1].rule = "decay"

\* C25: on a decay day (hike_probability <= 0.8 and sim_days >= 5) sim_price
\* decreases by 1.5 + 0.02 * max(0, sim_price - (tgp + 2.0)) and is raised to
\* tgp + 0.5 if it fell below: after the step sim_price >= tgp + 0.5, and
\* sim_days is the day count, not reset.
C25_DecayStep ==
    [][SimulatesDay =>
          LET f == forecaster[1]
              g == forecaster'[1]
          IN  (10 * g.hike_prob.n <= 8 * g.hike_prob.d /\ f.sim_days + 1 >= 5) =>
                  /\ Decayed(f.sim_price, g.sim_price)
                  /\ g.sim_price >= f.self.tgp + 5000
                  /\ g.sim_price <= f.sim_price \/ g.sim_price = f.self.tgp + 5000
                  /\ g.sim_days = f.sim_days + 1
                  /\ g.sim_days # 0]_vars

\* C25 witness: a trace that started 10.0 above the wholesale reference has
\* decayed down to the floor tgp + 0.5.
C25_Witness ==
    /\ forecaster # None
    /\ forecaster[1].self.current_price = forecaster[1].self.tgp + 100000
    /\ forecaster[1].rule = "decay"
    /\ forecaster[1].sim_price = forecaster[1].self.tgp + 5000
    /\ forecaster[1].sim_days >= 5

\* the day just simulated was a hike step
WasHike(f) == f.i >= 1 /\ 10 * f.hike_prob.n > 8 * f.hike_prob.d

\* the trace started no more than 16.0 below the wholesale reference
StartedNear(f) == f.self.current_price >= f.self.tgp - 160000

\* C28 as stated: with a status other than HIKE_STARTED and HIKE_IMMINENT,
\* sim_days is never reset to 0 during the trace; a hike step (of the overdue
\* ramp) leaves the price more than 2.0 below the peak, and the day after it
\* is always a decay step, never a second hike step.
C28_NoSecondHike ==
    [][(SimulatesDay /\ ~HikeUnderway) =>
          LET f == forecaster[1]
              g == forecaster'[1]
          IN  /\ g.sim_days = f.sim_days + 1
              /\ WasHike(g) => (f.sim_days + 1 > 33 /\ g.sim_price < Peak - 20000)
              /\ WasHike(f) => (~WasHike(g) /\ Decayed(f.sim_price, g.sim_price))]_vars

\* C28 amended: with such a status sim_days is never reset and a hike step
\* leaves the price more than 2.0 below the peak; the day after a hike step is
\* a decay step if the trace started at tgp - 16.0 or above, and a second hike
\* step if it started lower and day 1 was a hike step.
C28_NoSecondHikeFromNear ==
    [][(SimulatesDay /\ ~HikeUnderway) =>
          LET f == forecaster[1]
              g == forecaster'[1]
          IN  /\ g.sim_days = f.sim_days + 1
              /\ WasHike(g) => (f.sim_days + 1 > 33 /\ g.sim_price < Peak - 20000)
              /\ (WasHike(f) /\ StartedNear(f)) =>
                     (~WasHike(g) /\ Decayed(f.sim_price, g.sim_price))
              /\ (WasHike(f) /\ ~StartedNear(f) /\ f.i = 1) => WasHike(g)]_vars

\* C28 witness: status STABLE, 33 days since the hike, the price at the
\* floor: day 1 was a hike step of the ramp, day 2 a decay step.
C28_Witness ==
    /\ forecaster # None
    /\ forecaster[1].self.status = "STABLE"
    /\ forecaster[1].self.days_since_hike = 33
    /\ forecaster[1].self.current_price = forecaster[1].self.tgp + 5000
    /\ forecaster[1].i = 2
    /\ forecaster[1].forecast_prices[1] * 1000 > forecaster[1].self.tgp + 100000
    /\ forecaster[1].forecast_prices[2] < forecaster[1].forecast_prices[1]
    /\ forecaster[1].sim_days = 35

\* C29: if the starting price is at least tgp + 0.5, then after every
\* simulated day, whatever days_since_hike and the status,
\* tgp + 0.5 <= sim_price <= max(starting price, tgp + 24.0).
C29_PriceBounds ==
    (forecaster # None /\ forecaster[1].i >= 1) =>
        LET f == forecaster[1]
            start == f.self.current_price
        IN  start >= f.self.tgp + 5000 =>
                /\ f.sim_price >= f.self.tgp + 5000
                /\ f.sim_price <= IF start > Peak THEN start ELSE Peak

\* C29 witness: from 20.0 above the wholesale reference and a hike underway,
\* the second hike step has brought the price within 2.0 below the peak, and
\* the trace has gone on to its end.
C29_Witness ==
    /\ forecaster # None
    /\ forecaster[1].returned # None
    /\ forecaster[1].self.current_price = forecaster[1].self.tgp + 200000
    /\ forecaster[1].self.status = "HIKE_STARTED"
    /\ forecaster[1].forecast_prices[2] * 1000 > Peak - 20000
    /\ forecaster[1].forecast_prices[2] * 1000 <= Peak
    /\ forecaster[1].sim_price < Peak

(***************************************************************************)
(* Building the daily series: cycle_prediction.load_data and               *)
(* load_daily_data, and the first lines of backtester.run_backtest         *)
(***************************************************************************)
\* A raw observation is [reported_at, price_cpl]: reported_at is Some
\* timestamp or None for a text that is no date; price_cpl is Some number or
\* None for a cell that is no number.  In a frame a row is [date, price_cpl]
\* with None for NaT and for NaN.
NaN == Rat(0, 0)

\* pd.to_datetime(..., errors='coerce').dt.normalize()
CoerceDate(ob) ==
    IF ob.reported_at = None THEN None ELSE Some(Normalize(ob.reported_at[1]).day)

\* Series.median(): NaN is skipped; NaN when nothing is left
RECURSIVE InsertSorted(_, _)
InsertSorted(sorted, x) ==
    IF sorted = <<>> THEN <<x>>
    ELSE IF sorted[Len(sorted)] <= x THEN Append(sorted, x)
    ELSE Append(InsertSorted(SubSeq(sorted, 1, Len(sorted) - 1), x),
                sorted[Len(sorted)])

RECURSIVE SortedPrices(_, _)
SortedPrices(rows, day) ==
    IF rows = <<>> THEN <<>>
    ELSE LET rest == SortedPrices(SubSeq(rows, 1, Len(rows) - 1), day)
             row  == rows[Len(rows)]
         IN  IF row.date = Some(day) /\ row.price_cpl # None
             THEN InsertSorted(rest, row.price_cpl[1]) ELSE rest

median(sorted) ==
    LET n == Len(sorted)
    IN  IF n = 0 THEN NaN
        ELSE IF n % 2 = 1 THEN RInt(sorted[(n + 1) \div 2])
        ELSE Rat(sorted[n \div 2] + sorted[n \div 2 + 1], 2)

\* df.groupby('date')['price_cpl'].median().reset_index().sort_values('date'):
\* one row for each date of the frame, NaT left out, by date
RECURSIVE GroupRows(_, _)
GroupRows(rows, days) ==
    IF days = {} THEN <<>>
    ELSE LET last == CHOOSE d \in days : \A e \in days : e <= d
         IN  Append(GroupRows(rows, days \ {last}),
                    [date |-> last, price_cpl |-> median(SortedPrices(rows, last))])

groupby_median(rows) ==
    GroupRows(rows, {rows[k].date[1] : k \in {j \in 1..Len(rows) : rows[j].date # None}})

\* cycle_prediction.load_data, lines 44-53: dates coerced, prices coerced,
\* rows without a price dropped
load_data(obs) ==
    SelectSeq([k \in 1..Len(obs) |-> [date |-> CoerceDate(obs[k]),
                                      price_cpl |-> obs[k].price_cpl]],
              LAMBDA row : row.price_cpl # None)

load_daily_data(obs) == groupby_median(load_data(obs))

\* the dashboard's load of the daily series
LoadDailyData ==
    /\ observations.builder = ""
    /\ daily' = load_daily_data(observations.raw)
    /\ observations' = [observations EXCEPT !.builder = "load_daily_data"]
    /\ raised' = ""
    /\ UNCHANGED <<pending_config, opt, recommended, loaded, saved, physics,
                   forecaster, procs>>
    /\ UNCHANGED <<lookahead_days, ground_truth_threshold, algo_threshold,
                   config_file, now, pc, i, min_history, stop_idx, results, metrics,
                   stats, mp_stats, pred_in, prediction, prev>>

\* backtester.run_backtest, lines 16-22, on a frame of raw observations.
\* Without a 'date' column the dates are parsed by pd.to_datetime with its
\* default errors='raise'; with the 'date' column the caller made
\* (fuel_dashboard.py 825, errors='coerce') line 19 is skipped.  The prices are
\* grouped as they are.
Preprocess(has_date) ==
    /\ observations.builder = ""
    /\ observations' = [observations EXCEPT !.builder = "run_backtest"]
    /\ IF ~has_date /\ \E k \in 1..Len(observations.raw) :
                           observations.raw[k].reported_at = None
       THEN /\ raised' = "ValueError"
            /\ pc' = "raised"
            /\ daily' = daily
       ELSE /\ raised' = ""
            /\ pc' = pc
            /\ daily' = groupby_median(
                   [k \in 1..Len(observations.raw) |->
                       [date |-> CoerceDate(observations.raw[k]),
                        price_cpl |-> observations.raw[k].price_cpl]])
    /\ UNCHANGED <<pending_config, opt, recommended, loaded, saved, physics,
                   forecaster, procs>>
    /\ UNCHANGED <<lookahead_days, ground_truth_threshold, algo_threshold,
                   config_file, now, i, min_history, stop_idx, results, metrics,
                   stats, mp_stats, pred_in, prediction, prev>>

(***************************************************************************)
(* SpecBuild: the builders on every sequence of up to MaxObservations raw   *)
(* observations.                                                           *)
(***************************************************************************)
ObservationInputs ==
    [reported_at : {None, Some(Timestamp(0, 0)), Some(Timestamp(0, 1)),
                    Some(Timestamp(2, 1))},
     price_cpl : {None, Some(150), Some(156), Some(160)}]

InitBuild ==
    /\ pc = "idle"
    /\ i = 0
    /\ min_history = 0
    /\ stop_idx = 0
    /\ results = <<>>
    /\ metrics = None
    /\ mp_stats = None
    /\ pred_in = None
    /\ prediction = None
    /\ prev = None
    /\ raised = ""
    /\ pending_config = None
    /\ opt = None
    /\ recommended = None
    /\ loaded = None
    /\ saved = None
    /\ physics = None
    /\ forecaster = None
    /\ procs = None
    /\ stats = None
    /\ daily = <<>>
    /\ lookahead_days = DefaultLookahead
    /\ ground_truth_threshold = 5
    /\ algo_threshold = None
    /\ config_file = None
    /\ now = Timestamp(0, 1)
    /\ \E n \in 0..MaxObservations :
           \E raw \in [1..n -> ObservationInputs] :
               observations = [raw |-> raw, builder |-> ""]

NextBuild ==
    \/ LoadDailyData
    \/ \E has_date \in BOOLEAN : Preprocess(has_date)

SpecBuild == InitBuild /\ [][NextBuild]_vars

(***************************************************************************)
(* The daily series builder: claim C26 (SpecBuild).                        *)
(***************************************************************************)
\* the observations with a timestamp and a price that parse
ValidObservations ==
    {k \in 1..Len(observations.raw) :
        /\ observations.raw[k].reported_at # None
        /\ observations.raw[k].price_cpl # None}

\* the valid observations of a calendar day
ValidOn(day) ==
    {k \in ValidObservations : observations.raw[k].reported_at[1].day = day}

\* m is the median of the prices of the observations K: as many of them at
\* or below it as at or above it, and it is one of them or the mean of the
\* two next to it
IsMedianOf(m, K) ==
    LET price(k) == observations.raw[k].price_cpl[1]
        below == {k \in K : price(k) * m.d < m.n}
        above == {k \in K : price(k) * m.d > m.n}
    IN  /\ m.d # 0
        /\ 2 * Cardinality(below) <= Cardinality(K)
        /\ 2 * Cardinality(above) <= Cardinality(K)
        /\ \/ \E k \in K : price(k) * m.d = m.n
           \/ /\ Cardinality(below) = Cardinality(above)
              /\ \E a \in below, b \in above :
                     /\ (price(a) + price(b)) * m.d = 2 * m.n
                     /\ \A k \in below : price(k) <= price(a)
                     /\ \A k \in above : price(k) >= price(b)

\* C26: whatever the observations, a build ends without an error, and the
\* daily series has exactly one entry for each normalized date with at least
\* one valid observation, in strictly increasing order of date, priced at the
\* median of that date's valid prices; observations whose price or timestamp
\* does not parse are left out one by one, and with no valid observation the
\* series is empty.
C26_OneMedianPerValidDate ==
    observations.builder # "" =>
        /\ raised = ""
        /\ {daily[k].date : k \in 1..Len(daily)}
               = {observations.raw[k].reported_at[1].day : k \in ValidObservations}
        /\ \A k \in 2..Len(daily) : daily[k - 1].date < daily[k].date
        /\ \A k \in 1..Len(daily) :
               IsMedianOf(daily[k].price_cpl, ValidOn(daily[k].date))
        /\ ValidObservations = {} => daily = <<>>

\* C26 for the builder of cycle_prediction alone
C26_LoadDailyDataBuilds ==
    observations.builder = "load_daily_data" => C26_OneMedianPerValidDate

(***************************************************************************)
(* The backtester's signal: claim C27 (Spec).                              *)
(***************************************************************************)
\* the hike events, under the algorithm's threshold, of the history slice
\* 0..idx
SliceHikes(idx) == {k \in HikeRows(EffectiveThreshold) : k <= idx + 1}

\* the status of the day idx at the wall-clock time of the state: HIKE on the
\* fallback (fewer than two hike events: last_hike is the clock itself) and
\* within 3 days of the last hike; else by the mean days from a hike to the
\* low less the days elapsed
StatusOfDay(idx) ==
    LET H == SliceHikes(idx)
    IN  IF Cardinality(H) < 2 THEN "HIKE"
        ELSE LET elapsed == now.day - daily[LastHikeRow(H)].date
                 relent  == MeanDaysToLow(H)
                 left    == relent.n - elapsed * relent.d
             IN  IF elapsed < 3 THEN "HIKE"
                 ELSE IF left > 3 * relent.d THEN "DROPPING"
                 ELSE IF left > 0 THEN "BOTTOM"
                 ELSE "OVERDUE"

\* C27: the record run_backtest appends for a day whose history slice has
\* fewer than two hike events under the algorithm's threshold has
\* signal_hike = 1 (the fallback last_hike = now gives days_elapsed < 3 and the
\* status HIKE); for every day signal_hike is 1 exactly when the status is
\* HIKE or OVERDUE.
C27_FallbackSignalsHike ==
    [][Len(results') = Len(results) + 1 =>
          LET rec == results'[Len(results')]
          IN  /\ Cardinality(SliceHikes(i)) < 2 => rec.signal_hike = 1
              /\ rec.signal_hike = 1 <=> StatusOfDay(i) \in {"HIKE", "OVERDUE"}
              /\ rec.signal_hike \in {0, 1}]_vars

\* C27 witness: a finished backtest whose first evaluated day had one hike
\* event in its history and whose last had two: signal 1 on the first, and
\* signal 0 on the last, three days or more after its last hike.
C27_Witness ==
    /\ pc = "done"
    /\ metrics # None
    /\ Len(results) >= 2
    /\ Cardinality(SliceHikes(min_history)) = 1
    /\ results[1].signal_hike = 1
    /\ Cardinality(SliceHikes(min_history + Len(results) - 1)) >= 2
    /\ results[Len(results)].signal_hike = 0

(***************************************************************************)
(* One save_config and concurrent load_config calls on algo_config.json    *)
(***************************************************************************)
\* procs holds the file as it was before the save, the config being saved,
\* the writer's position and, for each reader, its position and its result.

\* line 29: open(CONFIG_FILE, 'w') creates the file or truncates it
SaveOpen ==
    /\ procs # None
    /\ procs[1].writer = "start"
    /\ config_file' = Some([json_dump(procs[1].config) EXCEPT !.written = 0])
    /\ procs' = Some([procs[1] EXCEPT !.writer = "writing"])
    /\ UNCHANGED <<raised, pending_config, opt, recommended, loaded, saved, physics,
                   forecaster, observations>>
    /\ UNCHANGED <<daily, lookahead_days, ground_truth_threshold, algo_threshold,
                   now, pc, i, min_history, stop_idx, results, metrics,
                   stats, mp_stats, pred_in, prediction, prev>>

\* line 30: json.dump writes the text piece by piece; the pieces written up to
\* some point reach the file
SaveFlush(upto) ==
    /\ procs # None
    /\ procs[1].writer = "writing"
    /\ config_file[1].written < upto
    /\ upto < TextLength(config_file[1])
    /\ config_file' = Some([config_file[1] EXCEPT !.written = upto])
    /\ UNCHANGED <<raised, pending_config, opt, recommended, loaded, saved, physics,
                   forecaster, observations, procs>>
    /\ UNCHANGED <<daily, lookahead_days, ground_truth_threshold, algo_threshold,
                   now, pc, i, min_history, stop_idx, results, metrics,
                   stats, mp_stats, pred_in, prediction, prev>>

\* the end of the with block: the rest of the text is flushed, the file closed
SaveClose ==
    /\ procs # None
    /\ procs[1].writer = "writing"
    /\ config_file' = Some([config_file[1] EXCEPT
                               !.written = TextLength(config_file[1])])
    /\ procs' = Some([procs[1] EXCEPT !.writer = "done"])
    /\ UNCHANGED <<raised, pending_config, opt, recommended, loaded, saved, physics,
                   forecaster, observations>>
    /\ UNCHANGED <<daily, lookahead_days, ground_truth_threshold, algo_threshold,
                   now, pc, i, min_history, stop_idx, results, metrics,
                   stats, mp_stats, pred_in, prediction, prev>>

\* line 20 of a load_config call: os.path.exists; without the file the call
\* returns the default (line 25)
ReaderExists(r) ==
    /\ procs # None
    /\ procs[1].readers[r].pc = "start"
    /\ procs' = Some([procs[1] EXCEPT !.readers[r] =
           IF config_file = None
           THEN [pc |-> "done", result |-> Some(default_config)]
           ELSE [pc |-> "open", result |-> None]])
    /\ UNCHANGED <<raised, pending_config, opt, recommended, loaded, saved, physics,
                   forecaster, observations>>
    /\ UNCHANGED <<daily, lookahead_days, ground_truth_threshold, algo_threshold,
                   config_file, now, pc, i, min_history, stop_idx, results, metrics,
                   stats, mp_stats, pred_in, prediction, prev>>

\* lines 21-25: the file is read as it is at that moment and parsed
ReaderLoad(r) ==
    /\ procs # None
    /\ procs[1].readers[r].pc = "open"
    /\ procs' = Some([procs[1] EXCEPT !.readers[r] =
           [pc |-> "done", result |-> Some(load_config)]])
    /\ UNCHANGED <<raised, pending_config, opt, recommended, loaded, saved, physics,
                   forecaster, observations>>
    /\ UNCHANGED <<daily, lookahead_days, ground_truth_threshold, algo_threshold,
                   config_file, now, pc, i, min_history, stop_idx, results, metrics,
                   stats, mp_stats, pred_in, prediction, prev>>

(***************************************************************************)
(* SpecConcurrent: every interleaving of one writer and NumReaders readers. *)
(***************************************************************************)
FilesBefore ==
    {None, Some(json_dump(ConfigDict(RInt(9)))), Some(json_dump(EmptyDict)),
     Some(GarbageFile)}

SavedConfigs == {ConfigDict(Rat(21, 2)), ConfigDict(RInt(8)), EmptyDict}

InitConcurrent ==
    /\ pc = "idle"
    /\ i = 0
    /\ min_history = 0
    /\ stop_idx = 0
    /\ results = <<>>
    /\ metrics = None
    /\ mp_stats = None
    /\ pred_in = None
    /\ prediction = None
    /\ prev = None
    /\ raised = ""
    /\ pending_config = None
    /\ opt = None
    /\ recommended = None
    /\ loaded = None
    /\ saved = None
    /\ physics = None
    /\ forecaster = None
    /\ observations = [raw |-> <<>>, builder |-> ""]
    /\ stats = None
    /\ daily = <<>>
    /\ lookahead_days = DefaultLookahead
    /\ ground_truth_threshold = 5
    /\ algo_threshold = None
    /\ now = Timestamp(0, 1)
    /\ config_file \in FilesBefore
    /\ \E c \in SavedConfigs :
           procs = Some([before |-> config_file, config |-> c, writer |-> "start",
                         readers |-> [r \in 1..NumReaders |->
                                         [pc |-> "start", result |-> None]]])

NextConcurrent ==
    \/ SaveOpen
    \/ \E upto \in 1..4 : SaveFlush(upto)
    \/ SaveClose
    \/ \E r \in 1..NumReaders : ReaderExists(r)
    \/ \E r \in 1..NumReaders : ReaderLoad(r)

SpecConcurrent == InitConcurrent /\ [][NextConcurrent]_vars

(***************************************************************************)
(* Concurrent readers: claim C30 (SpecConcurrent).                         *)
(***************************************************************************)
\* what the file held before the save, as a config: the default without a
\* file or with one that is no JSON
ConfigBefore ==
    IF procs[1].before = None THEN default_config
    ELSE IF procs[1].before[1].state # "json" THEN default_config
    ELSE [isdict |-> procs[1].before[1].isdict,
          has_threshold |-> procs[1].before[1].has_threshold,
          hike_threshold |->
              [isnum |-> procs[1].before[1].hike_threshold.isnum,
               val |-> Rat(10 * procs[1].before[1].hike_threshold.text.whole
                               + procs[1].before[1].hike_threshold.text.tenths, 10)]]

\* C30: in every interleaving of one save_config(new) with concurrent
\* load_config calls no call raises, and each call that has returned has
\* returned the config persisted before the save, the config being saved, or
\* the default {hike_threshold: 8.0}.
C30_ReadersSeeOldNewOrDefault ==
    procs # None =>
        /\ raised = ""
        /\ \A r \in 1..NumReaders :
               procs[1].readers[r].pc = "done" =>
                   /\ procs[1].readers[r].result # None
                   /\ \/ SameJson(procs[1].readers[r].result[1], ConfigBefore)
                      \/ SameJson(procs[1].readers[r].result[1], procs[1].config)
                      \/ SameJson(procs[1].readers[r].result[1],
                                  ConfigDict(RInt(8)))

\* C30 witness: the save of 10.5 over a persisted 9.0 is under way with part
\* of the text in the file; one reader has returned the default, which is
\* neither the old nor the new config, and another the old config.
C30_Witness ==
    /\ procs # None
    /\ procs[1].writer = "writing"
    /\ config_file[1].written > 0
    /\ procs[1].before = Some(json_dump(ConfigDict(RInt(9))))
    /\ procs[1].config = ConfigDict(Rat(21, 2))
    /\ \E r, q \in 1..NumReaders :
           /\ procs[1].readers[r].pc = "done"
           /\ procs[1].readers[q].pc = "done"
           /\ SameJson(procs[1].readers[r].result[1], ConfigDict(RInt(8)))
           /\ SameJson(procs[1].readers[q].result[1], ConfigDict(RInt(9)))

=============================================================================
